---- MODULE Spec2Model ----
(***************************************************************************)
(* Financial evaluation engine of the hydrogen bus fleet study             *)
(* (src/src/economics.py and the modules it calls).                        *)
(*                                                                         *)
(* Numbers.  The program computes in binary floating point and rounds its  *)
(* results to a fixed number of decimals.  The model writes the same       *)
(* expressions down as terms (RAdd, RMul, ...), takes their value in exact *)
(* rational arithmetic (Exact: arbitrary-precision numerator and           *)
(* denominator) and applies the same roundings, round-half-to-even as      *)
(* Python's round().  A rounded field is held as an integer count of its   *)
(* last decimal place (a field rounded to 3 decimals is held in            *)
(* thousandths).                                                           *)
(***************************************************************************)
EXTENDS Integers, Sequences, FiniteSets, TLC

(***************************************************************************)
(* Arbitrary-precision naturals: little-endian sequences of limbs in       *)
(* 0..Base-1 with no leading zero limb; zero is the empty sequence.        *)
(* Carries are resolved by look-ahead rather than by recursion over the    *)
(* limbs, so that evaluation depth does not grow with the size of a        *)
(* number.  The operations are functions, so that an operand is evaluated  *)
(* once, before the operation, as the program evaluates it.                *)
(***************************************************************************)
Base == 10 * 100

MaxOf(S) == CHOOSE i \in S : \A j \in S : j <= i

Limb(x, i) == IF i <= Len(x) THEN x[i] ELSE 0

Strip[x \in Seq(Int)] ==
    LET nz == {i \in 1..Len(x) : x[i] # 0}
    IN  IF nz = {} THEN << >> ELSE SubSeq(x, 1, MaxOf(nz))

\* n in 0 .. 2^31 - 1
BigOfNat(n) ==
    Strip[<< n % Base, (n \div Base) % Base, (n \div (Base * Base)) % Base,
             n \div (Base * Base * Base) >>]

\* x below 2^31
BigToNat(x) ==
    Limb(x, 1) + Base * (Limb(x, 2) + Base * (Limb(x, 3) + Base * Limb(x, 4)))

\* s has entries in 0 .. 2*Base-2: is there a carry into position i
CarryInto(s, i) ==
    \E j \in 1..(i - 1) :
        /\ s[j] >= Base
        /\ \A k \in (j + 1)..(i - 1) : s[k] = Base - 1

Resolve[s \in Seq(Nat)] ==
    Strip[[i \in 1..(Len(s) + 1) |->
              (Limb(s, i) + (IF CarryInto(s, i) THEN 1 ELSE 0)) % Base]]

BigAdd[x \in Seq(Nat), y \in Seq(Nat)] ==
    Resolve[[i \in 1..(IF Len(x) > Len(y) THEN Len(x) ELSE Len(y)) |->
                Limb(x, i) + Limb(y, i)]]

\* d has entries in -(Base-1) .. Base-1: is there a borrow from position i
BorrowFrom(d, i) ==
    \E j \in 1..(i - 1) :
        /\ d[j] < 0
        /\ \A k \in (j + 1)..(i - 1) : d[k] = 0

SubResolve[d \in Seq(Int)] ==
    Strip[[i \in 1..Len(d) |->
              (d[i] - (IF BorrowFrom(d, i) THEN 1 ELSE 0) + Base) % Base]]

\* x - y for x >= y
BigSub[x \in Seq(Nat), y \in Seq(Nat)] ==
    SubResolve[<< >> \o [i \in 1..Len(x) |-> x[i] - Limb(y, i)]]

\* one carry pass over column sums
CarryPass[c \in Seq(Nat)] ==
    << >> \o [i \in 1..(Len(c) + 1) |->
                 (IF i <= Len(c) THEN c[i] % Base ELSE 0)
                 + (IF i > 1 THEN c[i - 1] \div Base ELSE 0)]

\* the column sums of the long multiplication of x by y, both non-zero:
\* column k holds the sum of x[i] * y[k + 1 - i]
Columns[x \in Seq(Nat), y \in Seq(Nat)] ==
    LET sum[k \in Nat, lo \in Nat, hi \in Nat] ==
            IF lo > hi THEN 0
            ELSE IF lo = hi THEN x[lo] * y[k + 1 - lo]
            ELSE sum[k, lo, (lo + hi) \div 2] + sum[k, (lo + hi) \div 2 + 1, hi]
    IN  << >> \o [k \in 1..(Len(x) + Len(y) - 1) |->
                     sum[k, IF k + 1 - Len(y) > 1 THEN k + 1 - Len(y) ELSE 1,
                            IF k < Len(x) THEN k ELSE Len(x)]]

BigMul[x \in Seq(Nat), y \in Seq(Nat)] ==
    IF x = << >> \/ y = << >> THEN << >>
    ELSE IF x = << 1 >> THEN y
    ELSE IF y = << 1 >> THEN x
    ELSE Resolve[CarryPass[CarryPass[CarryPass[Columns[x, y]]]]]

\* -1, 0, 1 as x < y, x = y, x > y
BigCmp[x \in Seq(Nat), y \in Seq(Nat)] ==
    IF Len(x) < Len(y) THEN -1
    ELSE IF Len(x) > Len(y) THEN 1
    ELSE LET diff == {i \in 1..Len(x) : x[i] # y[i]}
         IN  IF diff = {} THEN 0
             ELSE IF x[MaxOf(diff)] < y[MaxOf(diff)] THEN -1 ELSE 1

BigSquare[x \in Seq(Nat)] == BigMul[x, x]

\* x^n by squaring
BigPow[x \in Seq(Nat), n \in Nat] ==
    IF n = 0 THEN << 1 >>
    ELSE IF n % 2 = 0 THEN BigSquare[BigPow[x, n \div 2]]
    ELSE BigMul[x, BigPow[x, n - 1]]

\* x * Base^k
ShiftLimbs(x, k) ==
    IF x = << >> THEN << >>
    ELSE << >> \o [i \in 1..(Len(x) + k) |-> IF i <= k THEN 0 ELSE x[i - k]]

\* a lower bound, at least 1, on the quotient of r by d for r >= d > 0,
\* from the three leading limbs of r and the two leading limbs of d; it is
\* within about one part in a thousand of the quotient
QuotientEstimate[r \in Seq(Nat), d \in Seq(Nat)] ==
    LET t   == Len(d)
        n   == Len(r)
        dd  == IF t = 1 THEN d[1]
               ELSE IF t = 2 THEN d[2] * Base + d[1]
               ELSE d[t] * Base + d[t - 1] + 1
        sh  == IF t <= 2 THEN 0 ELSE t - 2
        s   == IF n <= 3 THEN 0 ELSE n - 3
        top == Limb(r, s + 1) + Base * (Limb(r, s + 2) + Base * Limb(r, s + 3))
        e   == IF s >= sh THEN ShiftLimbs(BigOfNat(top \div dd), s - sh)
               ELSE BigOfNat((top \div Base^(sh - s)) \div dd)
    IN  IF e = << >> THEN << 1 >> ELSE e

QuotientRemainder == [q : Seq(Nat), r : Seq(Nat)]

\* quotient and remainder of r + q * d by d, by repeated estimates
DivLoop[q \in Seq(Nat), r \in Seq(Nat), d \in Seq(Nat)] ==
    IF BigCmp[r, d] < 0 THEN [q |-> q, r |-> r]
    ELSE LET e == QuotientEstimate[r, d]
         IN  DivLoop[BigAdd[q, e], BigSub[r, BigMul[d, e]], d]

\* quotient and remainder of x by d, d # 0
BigDivMod[x \in Seq(Nat), d \in Seq(Nat)] == DivLoop[<< >>, x, d]

\* a quotient q with remainder r by d, rounded to the nearest natural, ties
\* to even
RoundQuotient[q \in Seq(Nat), r \in Seq(Nat), d \in Seq(Nat)] ==
    LET twoR == BigCmp[BigAdd[r, r], d]
    IN  IF twoR > 0 \/ (twoR = 0 /\ Limb(q, 1) % 2 = 1)
        THEN BigAdd[q, << 1 >>] ELSE q

DivModRound[dm \in QuotientRemainder, d \in Seq(Nat)] == RoundQuotient[dm.q, dm.r, d]

\* x / d rounded to the nearest natural, ties to even
BigDivRound[x \in Seq(Nat), d \in Seq(Nat)] == DivModRound[BigDivMod[x, d], d]

\* the number of binary digits of n
BitLength[n \in Seq(Nat)] ==
    CHOOSE b \in 0..(10 * Len(n)) :
        /\ BigCmp[n, BigPow[<< 2 >>, b]] < 0
        /\ b = 0 \/ BigCmp[n, BigPow[<< 2 >>, b - 1]] >= 0


(***************************************************************************)
(* Exact signed rationals [neg, num, den]: num and den are naturals as     *)
(* above, den # 0, and zero is never negative.  Fractions are reduced by   *)
(* the powers of Base that numerator and denominator share and not         *)
(* further, so equal values can differ as records.                         *)
(***************************************************************************)
Rational == [neg : BOOLEAN, num : Seq(Nat), den : Seq(Nat)]

\* the number of low-order zero limbs of x # 0
LowZeros[x \in Seq(Nat)] == (CHOOSE i \in 1..Len(x) : x[i] # 0 /\ \A j \in 1..(i - 1) : x[j] = 0) - 1

\* the number of low-order zero limbs that num # 0 and den share
SharedZeros[num \in Seq(Nat), den \in Seq(Nat)] ==
    IF LowZeros[num] < LowZeros[den] THEN LowZeros[num] ELSE LowZeros[den]

\* x / Base^k for x a multiple of Base^k
DropLimbs[x \in Seq(Nat), k \in Nat] == SubSeq(x, k + 1, Len(x))

\* num / den, the powers of Base that the two share cancelled
QMake[neg \in BOOLEAN, num \in Seq(Nat), den \in Seq(Nat)] ==
    IF num = << >> THEN [neg |-> FALSE, num |-> num, den |-> den]
    ELSE [neg |-> neg, num |-> DropLimbs[num, SharedZeros[num, den]],
          den |-> DropLimbs[den, SharedZeros[num, den]]]

\* num / den as it is
QRaw[neg \in BOOLEAN, num \in Seq(Nat), den \in Seq(Nat)] ==
    [neg |-> neg /\ num # << >>, num |-> num, den |-> den]

\* the value a / b of two integers, b > 0
QFrac(a, b) == QMake[a < 0, BigOfNat(IF a < 0 THEN -a ELSE a), BigOfNat(b)]

QNeg[x \in Rational] == QMake[~x.neg, x.num, x.den]

QAbs[x \in Rational] == QMake[FALSE, x.num, x.den]

QSign[x \in Rational] == IF x.num = << >> THEN 0 ELSE IF x.neg THEN -1 ELSE 1

\* x + y for x and y over the same denominator
QAddSameDen[x \in Rational, y \in Rational] ==
    IF x.neg = y.neg THEN QMake[x.neg, BigAdd[x.num, y.num], x.den]
    ELSE IF BigCmp[x.num, y.num] >= 0
         THEN QMake[x.neg, BigSub[x.num, y.num], x.den]
    ELSE QMake[y.neg, BigSub[y.num, x.num], x.den]

\* x over the denominator x.den * m
QScale[x \in Rational, m \in Seq(Nat)] == QRaw[x.neg, BigMul[x.num, m], BigMul[x.den, m]]

\* the multipliers that bring denominators dx and dy to a common one, from
\* the quotient and remainder dm of the larger by the smaller: the larger
\* denominator is kept when the smaller one divides it
CommonDen[dx \in Seq(Nat), dy \in Seq(Nat), c \in Int, dm \in QuotientRemainder] ==
    IF dm.r # << >> THEN [x |-> dy, y |-> dx]
    ELSE IF c < 0 THEN [x |-> dm.q, y |-> << 1 >>]
    ELSE [x |-> << 1 >>, y |-> dm.q]

Multipliers[dx \in Seq(Nat), dy \in Seq(Nat), c \in Int] ==
    CommonDen[dx, dy, c, BigDivMod[IF c < 0 THEN dy ELSE dx, IF c < 0 THEN dx ELSE dy]]

MultiplierPair == [x : Seq(Nat), y : Seq(Nat)]

QAddScaled[x \in Rational, y \in Rational, m \in MultiplierPair] ==
    QAddSameDen[QScale[x, m.x], QScale[y, m.y]]

QAdd[x \in Rational, y \in Rational] ==
    QAddScaled[x, y, Multipliers[x.den, y.den, BigCmp[x.den, y.den]]]

QMul[x \in Rational, y \in Rational] ==
    QMake[x.neg # y.neg, BigMul[x.num, y.num], BigMul[x.den, y.den]]

\* x / y for y # 0
QDiv[x \in Rational, y \in Rational] ==
    QMake[x.neg # y.neg, BigMul[x.num, y.den], BigMul[x.den, y.num]]

QPow[x \in Rational, n \in Nat] ==
    QMake[x.neg /\ n % 2 = 1, BigPow[x.num, n], BigPow[x.den, n]]

\* x < y
QLt[x \in Rational, y \in Rational] == QSign[QAdd[x, QNeg[y]]] < 0

\* x rounded to a multiple of 1 / scale, ties to even, over the denominator
\* scale: count / scale, kept as it is
QRoundScaled[x \in Rational, scale \in Seq(Nat)] ==
    QRaw[x.neg, BigDivRound[BigMul[x.num, scale], x.den], scale]

\* Python's round(x, digits): the numerator of the result is the count of
\* 10^-digits
QRound[x \in Rational, digits \in Nat] == QRoundScaled[x, BigPow[<< 10 >>, digits]]

\* x with its numerator rounded to a multiple of unit, ties to even
QRoundNumerator[x \in Rational, unit \in Seq(Nat)] ==
    QMake[x.neg, BigMul[BigDivRound[x.num, unit], unit], x.den]

\* the double nearest to x (ties to even), for x with a power of two as
\* denominator and in the range of normal doubles: the result of a
\* floating-point addition whose exact sum is x
QDouble[x \in Rational] ==
    IF BigCmp[x.num, BigPow[<< 2 >>, 53]] < 0 THEN x
    ELSE QRoundNumerator[x, BigPow[<< 2 >>, BitLength[x.num] - 53]]

\* the integer held by a rational over the denominator 1, or the count of
\* its last decimal place held by a rounded one; below 2^31 in size
IntOf[x \in Rational] == IF x.neg THEN -BigToNat(x.num) ELSE BigToNat(x.num)

(***************************************************************************)
(* Terms: an arithmetic expression of the program, written down before it  *)
(* is evaluated, as the sequence of its operations in postfix order.  RInt *)
(* and RFrac are its literals, RVal injects an exact value, and Exact      *)
(* gives a term's value.                                                   *)
(***************************************************************************)
RFrac(a, b) == << [op |-> "frac", a |-> a, b |-> b] >>

RInt(i) == RFrac(i, 1)

RVal(v) == << [op |-> "val", v |-> v] >>

RNeg(x) == Append(x, [op |-> "neg"])

RAbs(x) == Append(x, [op |-> "abs"])

RAdd(x, y) == x \o Append(y, [op |-> "add"])

RSub(x, y) == RAdd(x, RNeg(y))

RMul(x, y) == x \o Append(y, [op |-> "mul"])

RDiv(x, y) == x \o Append(y, [op |-> "div"])

RPow(x, n) == Append(x, [op |-> "pow", n |-> n])

\* round(x, digits)
RoundTo(x, digits) == Append(x, [op |-> "round", n |-> digits])

\* the k-th value from the top of a stack of values
Top(stack, k) == stack[Len(stack) + 1 - k]

\* the stack with its k top values replaced by v
Replace(stack, k, v) == Append(SubSeq(stack, 1, Len(stack) - k), v)

\* the operations of terms
Operation ==
    [op : {"frac"}, a : Int, b : Nat] \cup [op : {"val"}, v : Rational]
    \cup [op : {"neg", "abs", "add", "mul", "div"}] \cup [op : {"pow", "round"}, n : Nat]

\* one operation of a term applied to the stack of the values before it
Step[stack \in Seq(Rational), ins \in Operation] ==
    CASE ins.op = "frac"  -> Replace(stack, 0, QFrac(ins.a, ins.b))
      [] ins.op = "val"   -> Replace(stack, 0, ins.v)
      [] ins.op = "neg"   -> Replace(stack, 1, QNeg[Top(stack, 1)])
      [] ins.op = "abs"   -> Replace(stack, 1, QAbs[Top(stack, 1)])
      [] ins.op = "add"   -> Replace(stack, 2, QAdd[Top(stack, 2), Top(stack, 1)])
      [] ins.op = "mul"   -> Replace(stack, 2, QMul[Top(stack, 2), Top(stack, 1)])
      [] ins.op = "div"   -> Replace(stack, 2, QDiv[Top(stack, 2), Top(stack, 1)])
      [] ins.op = "pow"   -> Replace(stack, 1, QPow[Top(stack, 1), ins.n])
      [] ins.op = "round" -> Replace(stack, 1, QRound[Top(stack, 1), ins.n])

\* the value of term t.  run[stack, lo, hi] is the stack after operations
\* lo .. hi of t, from the stack before them: the operations are run as two
\* halves, which keeps the evaluation depth logarithmic in the size of t
Exact[t \in Seq(Operation)] ==
    LET run[stack \in Seq(Rational), lo \in Nat, hi \in Nat] ==
            IF lo = hi THEN Step[stack, t[lo]]
            ELSE run[run[stack, lo, (lo + hi) \div 2], (lo + hi) \div 2 + 1, hi]
    IN  run[<< >>, 1, Len(t)][1]

\* the values of a record of terms that are integers or rounded
Values(r) == [f \in DOMAIN r |-> IntOf[Exact[r[f]]]]

RSign(x) == QSign[Exact[x]]

RIsZero(x) == RSign(x) = 0

REq(x, y) == RSign(RSub(x, y)) = 0

RLt(x, y) == RSign(RSub(x, y)) < 0

(***************************************************************************)
(* src/src/parameters.py: the baseline constants the engine reads.         *)
(***************************************************************************)
EXISTING_BUSES == 20
TOTAL_BUSES == 140
FUEL_ECONOMY_KG_100KM == RFrac(85, 10)
DAILY_MILEAGE_KM == 300
DAYS_PER_YEAR == 365
EXISTING_TYSELEY_CAPACITY_KG_DAY == 1000
ELECTROLYSER_YIELD == 267
NEW_ELECTROLYSER_MWE == 12
ELECTROLYSER_COST_PER_KW == RInt(750)
BOP_FRACTION == RFrac(75, 100)
ELECTROLYSER_LIFETIME_YR == 25
ELECTROLYSER_EFFICIENCY_KWH_KG == RInt(55)
STACK_REPLACEMENT_FRACTION == RFrac(15, 100)
ELECTROLYSER_OPEX_FRAC == RFrac(2, 100)
ELECTRICITY_PRICE_GBP_MWH == RInt(57)
TRANSPORT_COST_GBP_KG == RFrac(85, 100)
HRS_OPEX_GBP_KG == RFrac(104, 100)
HRS_CAPEX_EUR_PER_STATION == 2850000
EUR_GBP == RFrac(118, 100)
NEW_HRS_STATIONS == 3
TOTAL_NETWORK_CAPACITY == 800 + 1000 + 1000 + 800
DISCOUNT_RATE == RFrac(8, 100)
PROJECT_LIFE_YR == 20
GRID_CARBON_INTENSITY_G_KWH == RInt(35)
HRS_ENERGY_KWH_KG == RFrac(421, 100)
TRANSPORT_EMISSION_KG_KG == RFrac(27, 1000)
DIESEL_EMISSION_KG_KM == RFrac(90, 100)
DIESEL_PRICE_GBP_LITRE == RFrac(140, 100)
DIESEL_FUEL_ECONOMY_KM_L == RDiv(RInt(300), RFrac(18404, 100))
CARBON_PRICE_BASELINE == RInt(50)

\* an optional argument: None, or Some(v) holding v
None == << >>

Some(v) == << v >>

OrDefault(o, d) == IF o = None THEN d ELSE o[1]

(***************************************************************************)
(* src/src/demand.py: calculate_demand.  The operations below return their *)
(* result as a record of rounded terms; Values gives the fields a caller   *)
(* reads, those rounded to 2 decimals in hundredths, to 1 decimal in       *)
(* tenths, to 0 decimals in units.                                         *)
(***************************************************************************)
\* lines 50-65, for arguments that are terms
calculate_demand_of(total_buses, fuel_economy, daily_mileage_km, existing_capacity_kg_day) ==
    LET daily_per_bus    == RMul(RDiv(daily_mileage_km, RInt(100)), fuel_economy)
        full_fleet_daily == RMul(total_buses, daily_per_bus)
        existing_fleet_daily == RMul(RInt(EXISTING_BUSES), daily_per_bus)
        supply_gap       == RSub(full_fleet_daily, existing_capacity_kg_day)
        annual_total     == RMul(full_fleet_daily, RInt(DAYS_PER_YEAR))
        annual_mileage   == RMul(RMul(total_buses, daily_mileage_km), RInt(DAYS_PER_YEAR))
    IN  [daily_per_bus_kg        |-> RoundTo(daily_per_bus, 2),
         existing_fleet_daily_kg |-> RoundTo(existing_fleet_daily, 1),
         full_fleet_daily_kg     |-> RoundTo(full_fleet_daily, 1),
         supply_gap_kg_day       |-> RoundTo(supply_gap, 1),
         annual_total_kg         |-> RoundTo(annual_total, 0),
         annual_total_tonnes     |-> RoundTo(RDiv(annual_total, RInt(1000)), 1),
         annual_fleet_mileage_km |-> RoundTo(annual_mileage, 0)]

\* calculate_demand() with its arguments at their defaults (lines 27-30)
calculate_demand ==
    calculate_demand_of(RInt(TOTAL_BUSES), FUEL_ECONOMY_KG_100KM, RInt(DAILY_MILEAGE_KM),
                        RInt(EXISTING_TYSELEY_CAPACITY_KG_DAY))

(***************************************************************************)
(* src/src/emissions.py: calculate_emissions(grid_carbon_intensity).       *)
(* Emission factors are rounded to 4 decimals, tonnages and the percentage *)
(* to 1.  Where the exact value of a field lies halfway between two        *)
(* roundings (hrs_co2_kg_kgh2 at the default intensity, 0.14735) the       *)
(* floating-point value lies to one side of it and the program's rounding  *)
(* can differ from ties-to-even in the last place.                         *)
(***************************************************************************)
calculate_emissions(grid_carbon_intensity) ==
    LET demand   == calculate_demand
        prod_ef  == RDiv(RMul(ELECTROLYSER_EFFICIENCY_KWH_KG, grid_carbon_intensity),
                         RInt(1000))
        hrs_ef   == RDiv(RMul(HRS_ENERGY_KWH_KG, grid_carbon_intensity), RInt(1000))
        trans_ef == TRANSPORT_EMISSION_KG_KG
        total_ef == RAdd(RAdd(prod_ef, hrs_ef), trans_ef)
        h2_annual_co2 == RDiv(RMul(demand.annual_total_kg, total_ef), RInt(1000))
        diesel_annual_co2 ==
            RDiv(RMul(demand.annual_fleet_mileage_km, DIESEL_EMISSION_KG_KM),
                 RInt(1000))
        saving   == RSub(diesel_annual_co2, h2_annual_co2)
        reduction_pct == RMul(RDiv(saving, diesel_annual_co2), RInt(100))
    IN  [production_co2_kg_kgh2   |-> RoundTo(prod_ef, 4),
         hrs_co2_kg_kgh2          |-> RoundTo(hrs_ef, 4),
         transport_co2_kg_kgh2    |-> RoundTo(trans_ef, 4),
         total_h2_ef_kg_kgh2      |-> RoundTo(total_ef, 4),
         h2_annual_co2_tonnes     |-> RoundTo(h2_annual_co2, 1),
         diesel_annual_co2_tonnes |-> RoundTo(diesel_annual_co2, 1),
         co2_saving_tonnes_yr     |-> RoundTo(saving, 1),
         co2_reduction_pct        |-> RoundTo(reduction_pct, 1)]

(***************************************************************************)
(* src/src/infrastructure.py                                               *)
(***************************************************************************)
\* a plausible slip: the balance of plant left out of the electrolyser total
electrolyser_total_without_bop(equip, bop) == equip

\* total electrolyser CAPEX = equipment + BoP
electrolyser_total(equip, bop) == RAdd(equip, bop)

\* calculate_capex(electrolyser_cost_per_kw, bop_fraction), its other
\* arguments at their defaults; every money field rounded to whole pounds
calculate_capex(electrolyser_cost_per_kw, bop_fraction) ==
    LET capacity_kw == RMul(RInt(NEW_ELECTROLYSER_MWE), RInt(1000))
        equip       == RMul(capacity_kw, electrolyser_cost_per_kw)
        bop         == RMul(equip, bop_fraction)
        elec_total  == electrolyser_total(equip, bop)
        hrs_per_station_gbp == RDiv(RInt(HRS_CAPEX_EUR_PER_STATION), EUR_GBP)
        hrs_total   == RMul(hrs_per_station_gbp, RInt(NEW_HRS_STATIONS))
        total_capex == RAdd(elec_total, hrs_total)
        new_prod    == RMul(RInt(NEW_ELECTROLYSER_MWE), RInt(ELECTROLYSER_YIELD))
        total_prod  == RAdd(RInt(EXISTING_TYSELEY_CAPACITY_KG_DAY), new_prod)
    IN  [electrolyser_equipment_gbp |-> RoundTo(equip, 0),
         electrolyser_bop_gbp       |-> RoundTo(bop, 0),
         electrolyser_total_gbp     |-> RoundTo(elec_total, 0),
         hrs_per_station_gbp        |-> RoundTo(hrs_per_station_gbp, 0),
         hrs_total_gbp              |-> RoundTo(hrs_total, 0),
         total_capex_gbp            |-> RoundTo(total_capex, 0),
         new_production_kg_day      |-> RoundTo(new_prod, 0),
         total_production_kg_day    |-> RoundTo(total_prod, 0),
         total_network_dispensing_kg_day |-> RInt(TOTAL_NETWORK_CAPACITY)]

(***************************************************************************)
(* src/src/economics.py: helpers                                           *)
(***************************************************************************)
\* Capital recovery factor; rate a term, n_years a natural
_annuity_factor(rate, n_years) ==
    IF RIsZero(rate) THEN RInt(n_years)
    ELSE LET g == RPow(RAdd(RInt(1), rate), n_years)
         IN  RDiv(RMul(rate, g), RSub(g, RInt(1)))

\* a plausible slip: years counted from 1, so that year 0 is discounted too
npv_term_years_from_one(cash_flow, base, t) == RDiv(cash_flow, RPow(base, t + 1))

\* cash_flows / (1 + discount_rate) ** t, for the cash flow of year t
npv_term(cash_flow, base, t) == RDiv(cash_flow, RPow(base, t))

\* np.sum of terms lo .. hi of a sequence of terms.  Exact addition is
\* associative, so the order of summation does not matter; the sum is taken
\* pairwise, which keeps the evaluation depth logarithmic in the length
RECURSIVE SumTerms(_, _, _)
SumTerms(terms, lo, hi) ==
    IF lo > hi THEN RInt(0)
    ELSE IF lo = hi THEN terms[lo]
    ELSE RAdd(SumTerms(terms, lo, (lo + hi) \div 2),
              SumTerms(terms, (lo + hi) \div 2 + 1, hi))

\* np.sum of the discounted cash flows; cash_flows is a sequence of terms
\* whose index 1 holds year 0
_npv(cash_flows, discount_rate) ==
    LET base  == RAdd(RInt(1), discount_rate)
        terms == [i \in 1..Len(cash_flows) |-> npv_term(cash_flows[i], base, i - 1)]
    IN  SumTerms(terms, 1, Len(cash_flows))

(***************************************************************************)
(* src/src/economics.py: _irr, one step at a time.  The bracket ends lo    *)
(* and hi are doubles: their sum is rounded to the nearest double before   *)
(* it is halved.  frame holds the locals lo, hi, npv_lo (exact values) and *)
(* the number of bisection iterations completed.                           *)
(***************************************************************************)
npv_at_rate(cash_flows, r) ==
    LET base  == RAdd(RInt(1), RVal(r))
        terms == [i \in 1..Len(cash_flows) |-> RDiv(cash_flows[i], RPow(base, i - 1))]
    IN  Exact[SumTerms(terms, 1, Len(cash_flows))]

irr_lo == QFrac(-1, 2)

irr_hi == QFrac(2, 1)

irr_iterations == 100

\* a plausible slip: the bound included, one iteration too many
irr_in_range_one_more(iteration) == iteration <= irr_iterations

\* line 65, `for _ in range(100)`: the loop has an iteration left after
\* `iteration` completed ones
irr_in_range(iteration) == iteration < irr_iterations

\* npv_lo * npv_hi > 0
irr_no_sign_change(npv_lo, npv_hi) == QSign[npv_lo] * QSign[npv_hi] > 0

\* (lo + hi) / 2
irr_midpoint(lo, hi) == QDiv[QDouble[QAdd[lo, hi]], QFrac(2, 1)]

\* a plausible slip: a tolerance of 10 currency units
irr_converged_within_ten(npv_mid) == QLt[QAbs[npv_mid], QFrac(10, 1)]

\* abs(npv_mid) < 1.0
irr_converged(npv_mid) == QLt[QAbs[npv_mid], QFrac(1, 1)]

\* lines 61-62: the value returned, or the frame the bisection starts from
irr_check(npv_lo, npv_hi) ==
    IF irr_no_sign_change(npv_lo, npv_hi)
    THEN [returns |-> TRUE, value |-> None, frame |-> None]
    ELSE [returns |-> FALSE, value |-> None,
          frame |-> Some([lo |-> irr_lo, hi |-> irr_hi, npv_lo |-> npv_lo,
                          iteration |-> 0])]

\* lines 58-62: the NPV at both ends of the domain and the sign-change check
irr_enter(cash_flows) ==
    irr_check(npv_at_rate(cash_flows, irr_lo), npv_at_rate(cash_flows, irr_hi))

\* lines 68-74: return mid, or narrow the bracket of frame f to one side of it
irr_narrow(f, mid, npv_mid) ==
    IF irr_converged(npv_mid)
    THEN [returns |-> TRUE, value |-> Some(mid), frame |-> Some(f)]
    ELSE IF QSign[f.npv_lo] * QSign[npv_mid] < 0
    THEN [returns |-> FALSE, value |-> None,
          frame |-> Some([f EXCEPT !.hi = mid, !.iteration = @ + 1])]
    ELSE [returns |-> FALSE, value |-> None,
          frame |-> Some([f EXCEPT !.lo = mid, !.npv_lo = npv_mid,
                                   !.iteration = @ + 1])]

\* lines 67-74: the iteration from frame f, mid computed
irr_bisect(cash_flows, f, mid) == irr_narrow(f, mid, npv_at_rate(cash_flows, mid))

\* one iteration of the bisection loop from frame f
irr_iterate(cash_flows, f) == irr_bisect(cash_flows, f, irr_midpoint(f.lo, f.hi))

\* line 75: the value returned when the loop ends at step final
irr_result(final) ==
    IF final.returns THEN final.value
    ELSE Some(irr_midpoint(final.frame[1].lo, final.frame[1].hi))

Literal == Seq([op : {"frac"}, a : Int, b : Nat])

IrrFrame == [lo : Rational, hi : Rational, npv_lo : Rational, iteration : Nat]

IrrStep == [returns : BOOLEAN, value : Seq(Rational), frame : Seq(IrrFrame)]

\* n further iterations of the bisection loop from step s, stopping at a
\* return; the iterations are run as two halves, which keeps the evaluation
\* depth logarithmic in n
irr_run[cash_flows \in Seq(Literal), s \in IrrStep, n \in Nat] ==
    IF n = 0 \/ s.returns THEN s
    ELSE IF n = 1 THEN irr_iterate(cash_flows, s.frame[1])
    ELSE irr_run[cash_flows, irr_run[cash_flows, s, n \div 2], n - n \div 2]

\* _irr as one call: None, or Some(rate); cash_flows a sequence of literals
_irr(cash_flows) == irr_result(irr_run[cash_flows, irr_enter(cash_flows), irr_iterations])

(***************************************************************************)
(* src/src/economics.py: calculate_lcoh.  The five overrides are optional  *)
(* (None or Some(v)); the fields are rounded to 3 decimals of GBP/kg.      *)
(***************************************************************************)
\* lines 131-163: the components from the electrolyser capex that
\* calculate_capex returned and the values in force
lcoh_from(electrolyser_total_gbp, electricity_price_gbp_mwh, discount_rate, eff, trans, hrs_opex) ==
    LET annual_prod_kg == RInt(NEW_ELECTROLYSER_MWE * ELECTROLYSER_YIELD * DAYS_PER_YEAR)
        elec_gbp_kwh     == RDiv(electricity_price_gbp_mwh, RInt(1000))
        electricity_cost == RMul(eff, elec_gbp_kwh)
        crf == _annuity_factor(discount_rate, ELECTROLYSER_LIFETIME_YR)
        annual_capex_charge == RMul(electrolyser_total_gbp, crf)
        capex_per_kg == RDiv(annual_capex_charge, annual_prod_kg)
        annual_opex  == RMul(electrolyser_total_gbp, ELECTROLYSER_OPEX_FRAC)
        opex_per_kg  == RDiv(annual_opex, annual_prod_kg)
        annual_stack == RMul(electrolyser_total_gbp,
                             RDiv(STACK_REPLACEMENT_FRACTION, RInt(10)))
        stack_per_kg == RDiv(annual_stack, annual_prod_kg)
        production_lcoh == RAdd(RAdd(RAdd(electricity_cost, capex_per_kg), opex_per_kg),
                                stack_per_kg)
        total_cost      == RAdd(RAdd(production_lcoh, trans), hrs_opex)
    IN  [electricity_cost_gbp_kg     |-> RoundTo(electricity_cost, 3),
         capex_amortised_gbp_kg      |-> RoundTo(capex_per_kg, 3),
         opex_non_energy_gbp_kg      |-> RoundTo(opex_per_kg, 3),
         stack_replacement_gbp_kg    |-> RoundTo(stack_per_kg, 3),
         production_lcoh_gbp_kg      |-> RoundTo(production_lcoh, 3),
         transport_gbp_kg            |-> RoundTo(trans, 3),
         hrs_opex_gbp_kg             |-> RoundTo(hrs_opex, 3),
         total_dispensed_cost_gbp_kg |-> RoundTo(total_cost, 3)]

\* lines 119-129: the values in force and the call of calculate_capex
calculate_lcoh(electricity_price_gbp_mwh, discount_rate, electrolyser_efficiency_kwh_kg, electrolyser_cost_per_kw, bop_fraction, transport_cost_gbp_kg, hrs_opex_gbp_kg_override) ==
    lcoh_from(calculate_capex(OrDefault(electrolyser_cost_per_kw, ELECTROLYSER_COST_PER_KW),
                              OrDefault(bop_fraction, BOP_FRACTION)).electrolyser_total_gbp,
              electricity_price_gbp_mwh, discount_rate,
              OrDefault(electrolyser_efficiency_kwh_kg, ELECTROLYSER_EFFICIENCY_KWH_KG),
              OrDefault(transport_cost_gbp_kg, TRANSPORT_COST_GBP_KG),
              OrDefault(hrs_opex_gbp_kg_override, HRS_OPEX_GBP_KG))

(***************************************************************************)
(* src/src/economics.py: calculate_annual_costs.  Money fields are rounded *)
(* to whole pounds, carbon_saving_tonnes to a tenth of a tonne.            *)
(***************************************************************************)
\* lines 188-210: the costs from the results of calculate_demand,
\* calculate_lcoh and calculate_emissions
annual_costs_from(demand, lcoh, emis, carbon_price_gbp_tonne, diesel_price_gbp_litre) ==
    LET h2_cost == RMul(demand.annual_total_kg, lcoh.total_dispensed_cost_gbp_kg)
        total_diesel_litres ==
            RDiv(RInt(TOTAL_BUSES * DAILY_MILEAGE_KM * DAYS_PER_YEAR),
                 DIESEL_FUEL_ECONOMY_KM_L)
        diesel_cost   == RMul(total_diesel_litres, diesel_price_gbp_litre)
        fuel_saving   == RSub(diesel_cost, h2_cost)
        co2_saved     == emis.co2_saving_tonnes_yr
        carbon_value  == RMul(co2_saved, carbon_price_gbp_tonne)
        total_benefit == RAdd(fuel_saving, carbon_value)
    IN  [h2_fuel_cost_gbp         |-> RoundTo(h2_cost, 0),
         diesel_fuel_cost_gbp     |-> RoundTo(diesel_cost, 0),
         fuel_saving_gbp          |-> RoundTo(fuel_saving, 0),
         carbon_saving_tonnes     |-> RoundTo(co2_saved, 1),
         carbon_saving_value_gbp  |-> RoundTo(carbon_value, 0),
         total_annual_benefit_gbp |-> RoundTo(total_benefit, 0)]

\* lines 184-186: the three calls
calculate_annual_costs(electricity_price_gbp_mwh, carbon_price_gbp_tonne, diesel_price_gbp_litre) ==
    annual_costs_from(calculate_demand,
                      calculate_lcoh(electricity_price_gbp_mwh, DISCOUNT_RATE,
                                     None, None, None, None, None),
                      calculate_emissions(electricity_price_gbp_mwh),
                      carbon_price_gbp_tonne, diesel_price_gbp_litre)

(***************************************************************************)
(* src/src/economics.py: calculate_npv_irr.  A call returns a              *)
(* FinancialAnalysis or raises: an outcome is [raised, result], raised the *)
(* name of the exception ("" for none) and result None or Some(record).    *)
(* total_capex_gbp, annual_benefit_gbp and npv_gbp are whole pounds,       *)
(* irr_pct is None or Some(hundredths of a percent), simple_payback_yr is  *)
(* infinite or a count of tenths of a year, benefit_cost_ratio a count of  *)
(* thousandths.                                                            *)
(***************************************************************************)
\* line 250: [-total_capex] + [annual_benefit] * project_life_yr; a list
\* repeated a non-positive number of times is empty
project_cash_flows(total_capex, annual_benefit, project_life_yr) ==
    << RInt(-total_capex) >> \o [i \in 1..project_life_yr |-> RInt(annual_benefit)]

\* line 254: round(irr_val * 100, 2) if irr_val is not None else None
irr_percent(irr_val) ==
    IF irr_val = None THEN None
    ELSE Some(IntOf[QRound[QMul[irr_val[1], QFrac(100, 1)], 2]])

\* a plausible slip: the guard reversed
simple_payback_of_negative_benefit(total_capex, annual_benefit) ==
    IF annual_benefit < 0
    THEN [finite |-> TRUE,
          tenths |-> IntOf[Exact[RoundTo(RDiv(RInt(total_capex), RInt(annual_benefit)), 1)]]]
    ELSE [finite |-> FALSE, tenths |-> 0]

\* lines 256 and 267: total_capex / annual_benefit if annual_benefit > 0
\* else float("inf"), rounded to 1 decimal
simple_payback(total_capex, annual_benefit) ==
    IF annual_benefit > 0
    THEN [finite |-> TRUE,
          tenths |-> IntOf[Exact[RoundTo(RDiv(RInt(total_capex), RInt(annual_benefit)), 1)]]]
    ELSE [finite |-> FALSE, tenths |-> 0]

\* x ** n for an integer n of either sign, x # 0
RPowInt(x, n) == IF n >= 0 THEN RPow(x, n) ELSE RDiv(RInt(1), RPow(x, -n))

\* line 259: annual_benefit * ((1 - (1 + discount_rate) ** -project_life_yr)
\* / discount_rate), discount_rate # 0
pv_benefits(annual_benefit, discount_rate, project_life_yr) ==
    RMul(RInt(annual_benefit),
         RDiv(RSub(RInt(1), RPowInt(RAdd(RInt(1), discount_rate), -project_life_yr)),
              discount_rate))

\* line 260
bcr(total_capex, annual_benefit, discount_rate, project_life_yr) ==
    RDiv(pv_benefits(annual_benefit, discount_rate, project_life_yr), RInt(total_capex))

NpvIrrLocals ==
    [total_capex : Int, annual_benefit : Int, cash_flows : Seq(Literal),
     irr_val : Seq(Rational)]

\* lines 246-253: the locals of a call once _irr has returned, from the
\* whole-pound total_capex and annual_benefit that calculate_capex and
\* calculate_annual_costs returned
npv_irr_locals[total_capex \in Int, annual_benefit \in Int, project_life_yr \in Int] ==
    [total_capex    |-> total_capex,
     annual_benefit |-> annual_benefit,
     cash_flows     |-> project_cash_flows(total_capex, annual_benefit, project_life_yr),
     irr_val        |-> _irr(project_cash_flows(total_capex, annual_benefit,
                                                project_life_yr))]

\* lines 252-269 from the locals loc.  The division by discount_rate of line
\* 259 raises ZeroDivisionError at rate 0.
financial_analysis[loc \in NpvIrrLocals, discount_rate \in Rational, project_life_yr \in Int] ==
    IF QSign[discount_rate] = 0
    THEN [raised |-> "ZeroDivisionError", result |-> None]
    ELSE [raised |-> "",
          result |-> Some(
              [total_capex_gbp    |-> loc.total_capex,
               annual_benefit_gbp |-> loc.annual_benefit,
               npv_gbp            |->
                   IntOf[Exact[RoundTo(_npv(loc.cash_flows, RVal(discount_rate)), 0)]],
               irr_pct            |-> irr_percent(loc.irr_val),
               simple_payback_yr  |-> simple_payback(loc.total_capex, loc.annual_benefit),
               benefit_cost_ratio |->
                   IntOf[Exact[RoundTo(bcr(loc.total_capex, loc.annual_benefit,
                                           RVal(discount_rate), project_life_yr), 3)]]])]

\* lines 243-250 and 253: the locals of calculate_npv_irr
calculate_npv_irr_locals(electricity_price_gbp_mwh, carbon_price_gbp_tonne, project_life_yr, diesel_price_gbp_litre) ==
    npv_irr_locals[
        IntOf[Exact[calculate_capex(ELECTROLYSER_COST_PER_KW, BOP_FRACTION).total_capex_gbp]],
        IntOf[Exact[calculate_annual_costs(electricity_price_gbp_mwh, carbon_price_gbp_tonne,
                                           diesel_price_gbp_litre).total_annual_benefit_gbp]],
        project_life_yr]

calculate_npv_irr(electricity_price_gbp_mwh, carbon_price_gbp_tonne, discount_rate, project_life_yr, diesel_price_gbp_litre) ==
    financial_analysis[
        calculate_npv_irr_locals(electricity_price_gbp_mwh, carbon_price_gbp_tonne,
                                 project_life_yr, diesel_price_gbp_litre),
        Exact[discount_rate], project_life_yr]

(***************************************************************************)
(* src/src/economics.py: diesel_breakeven_price, in thousandths of a pound *)
(* per litre                                                               *)
(***************************************************************************)
\* a plausible slip: the carbon penalty added to the hydrogen cost
breakeven_with_penalty_added(h2_annual, diesel_carbon_penalty, total_diesel_litres) ==
    RDiv(RAdd(h2_annual, diesel_carbon_penalty), total_diesel_litres)

\* line 292: (h2_annual - diesel_carbon_penalty) / total_diesel_litres
breakeven(h2_annual, diesel_carbon_penalty, total_diesel_litres) ==
    RDiv(RSub(h2_annual, diesel_carbon_penalty), total_diesel_litres)

\* lines 287-293 from the results of calculate_demand, calculate_lcoh and
\* calculate_emissions
breakeven_price_from(demand, lcoh, emis, carbon_price_gbp_tonne) ==
    LET h2_annual == RMul(demand.annual_total_kg, lcoh.total_dispensed_cost_gbp_kg)
        diesel_carbon_penalty == RMul(emis.diesel_annual_co2_tonnes, carbon_price_gbp_tonne)
        total_diesel_litres ==
            RDiv(RInt(TOTAL_BUSES * DAILY_MILEAGE_KM * DAYS_PER_YEAR),
                 DIESEL_FUEL_ECONOMY_KM_L)
    IN  RoundTo(breakeven(h2_annual, diesel_carbon_penalty, total_diesel_litres), 3)

\* lines 283-285: the three calls
diesel_breakeven_price(electricity_price_gbp_mwh, carbon_price_gbp_tonne) ==
    breakeven_price_from(calculate_demand,
                         calculate_lcoh(electricity_price_gbp_mwh, DISCOUNT_RATE,
                                        None, None, None, None, None),
                         calculate_emissions(electricity_price_gbp_mwh),
                         carbon_price_gbp_tonne)

(***************************************************************************)
(* State: one call of an engine operation.                                 *)
(*   op   the operation called                                             *)
(*   args its arguments                                                    *)
(*   ret  << >> until the operation has returned, then << its result >>    *)
(*   frame the locals of a running _irr (None outside its bisection loop)  *)
(*   P    the parameters module as other modules see it through            *)
(*        `import src.parameters as P`: the attributes a sweep varies      *)
(*   calls the engine calls a sweep session has made, with their results   *)
(* Every engine operation is a function of its arguments; a specification  *)
(* draws the arguments in its initial states and its action applies the    *)
(* operation.  Arguments are literals; a result is held by its values      *)
(* (Values of a record, Exact of a number).                                *)
(***************************************************************************)
VARIABLES op, args, ret, frame, P, calls

vars == << op, args, ret, frame, P, calls >>

Pending == << >>

Returned == ret # Pending

\* src/src/sensitivity.py:415-427: the attributes of the parameters module
\* that plot_tornado_lcoh assigns
PatchedAttrs ==
    {"ELECTROLYSER_EFFICIENCY_KWH_KG", "ELECTROLYSER_COST_PER_KW", "BOP_FRACTION",
     "TRANSPORT_COST_GBP_KG", "HRS_OPEX_GBP_KG"}

\* src/src/sensitivity.py:406-411: the attributes plot_tornado_lcoh varies by
\* passing an argument instead
ArgumentAttrs == {"ELECTRICITY_PRICE_GBP_MWH", "DISCOUNT_RATE"}

\* src/src/parameters.py: their values when the module has been imported
ParameterDefaults ==
    [attr \in PatchedAttrs \cup ArgumentAttrs |->
        CASE attr = "ELECTROLYSER_EFFICIENCY_KWH_KG" -> ELECTROLYSER_EFFICIENCY_KWH_KG
          [] attr = "ELECTROLYSER_COST_PER_KW" -> ELECTROLYSER_COST_PER_KW
          [] attr = "BOP_FRACTION" -> BOP_FRACTION
          [] attr = "TRANSPORT_COST_GBP_KG" -> TRANSPORT_COST_GBP_KG
          [] attr = "HRS_OPEX_GBP_KG" -> HRS_OPEX_GBP_KG
          [] attr = "ELECTRICITY_PRICE_GBP_MWH" -> ELECTRICITY_PRICE_GBP_MWH
          [] attr = "DISCOUNT_RATE" -> DISCOUNT_RATE]

\* the modules as imported, no sweep session under way
Startup == P = ParameterDefaults /\ calls = << >>

(***************************************************************************)
(* Calls of calculate_lcoh: electricity prices and discount rates of the   *)
(* sensitivity sweep and a zero discount rate; each override absent or     *)
(* given at -20% / +20% of its baseline; the transport cost also at a      *)
(* value with a fourth decimal.                                            *)
(***************************************************************************)
LcohPrices == {RFrac(456, 10), ELECTRICITY_PRICE_GBP_MWH}

LcohRates == {RInt(0), DISCOUNT_RATE}

LcohEffs == {None, Some(RInt(44))}

LcohCosts == {None, Some(RInt(600)), Some(RInt(900))}

LcohBops == {None, Some(RFrac(9, 10))}

LcohTrans == {None, Some(RFrac(102, 100)), Some(RFrac(8504, 10000))}

LcohHrs == {None, Some(RFrac(832, 1000))}

LcohArgs ==
    [electricity_price_gbp_mwh : LcohPrices, discount_rate : LcohRates,
     electrolyser_efficiency_kwh_kg : LcohEffs,
     electrolyser_cost_per_kw : LcohCosts, bop_fraction : LcohBops,
     transport_cost_gbp_kg : LcohTrans, hrs_opex_gbp_kg_override : LcohHrs]

\* the fields of calculate_lcoh applied to an argument record, in thousandths
LcohOf(a) ==
    Values(calculate_lcoh(a.electricity_price_gbp_mwh, a.discount_rate,
                          a.electrolyser_efficiency_kwh_kg, a.electrolyser_cost_per_kw,
                          a.bop_fraction, a.transport_cost_gbp_kg,
                          a.hrs_opex_gbp_kg_override))

InitLcoh ==
    op = "calculate_lcoh" /\ args \in LcohArgs /\ ret = Pending /\ frame = None
    /\ Startup

CallLcoh ==
    /\ op = "calculate_lcoh" /\ ret = Pending
    /\ ret' = << LcohOf(args) >>
    /\ UNCHANGED << op, args, frame, P, calls >>

SpecLcoh == InitLcoh /\ [][CallLcoh]_vars

LcohReturned == op = "calculate_lcoh" /\ Returned

(***************************************************************************)
(* C1: the total_dispensed_cost_gbp_kg field of every LCOHBreakdown that   *)
(* calculate_lcoh returns equals the sum of its six component fields       *)
(* (electricity, amortised capex, non-energy opex, stack replacement,      *)
(* transport, HRS opex) exactly.                                           *)
(***************************************************************************)
C1_TotalIsSumOfSixFields ==
    LcohReturned =>
        ret[1].total_dispensed_cost_gbp_kg =
            ret[1].electricity_cost_gbp_kg + ret[1].capex_amortised_gbp_kg
            + ret[1].opex_non_energy_gbp_kg + ret[1].stack_replacement_gbp_kg
            + ret[1].transport_gbp_kg + ret[1].hrs_opex_gbp_kg

(***************************************************************************)
(* C8: each override of calculate_lcoh falls back to its default when      *)
(* absent and is used on its own when given: the electricity component is  *)
(* the efficiency in force times the price, the transport and HRS          *)
(* components are the values in force, and the capital, non-energy opex    *)
(* and stack components are each the electrolyser capex                    *)
(* capacity * unit cost * (1 + BoP fraction), with the unit cost and BoP   *)
(* fraction in force, times their factor per kg produced.  Overriding the  *)
(* unit cost or the BoP fraction leaves the electricity, transport and HRS *)
(* components as they are without these two overrides.                     *)
(***************************************************************************)
InForce(override, default) == IF override = None THEN default ELSE override[1]

\* round(x, digits) as a count of 10^-digits
Rounded(x, digits) == IntOf[Exact[RoundTo(x, digits)]]

ElectrolyserCapexInForce(a) ==
    RMul(RMul(RInt(NEW_ELECTROLYSER_MWE * 1000),
              InForce(a.electrolyser_cost_per_kw, ELECTROLYSER_COST_PER_KW)),
         RAdd(RInt(1), InForce(a.bop_fraction, BOP_FRACTION)))

PerKgProduced(x) ==
    RDiv(x, RInt(NEW_ELECTROLYSER_MWE * ELECTROLYSER_YIELD * DAYS_PER_YEAR))

WithoutCapexOverrides(a) ==
    [a EXCEPT !.electrolyser_cost_per_kw = None, !.bop_fraction = None]

C8_OverridesFallBackAndPropagate ==
    LcohReturned =>
        LET r == ret[1]
            E == ElectrolyserCapexInForce(args)
            b == LcohOf(WithoutCapexOverrides(args))
        IN  /\ r.electricity_cost_gbp_kg =
                 Rounded(RMul(InForce(args.electrolyser_efficiency_kwh_kg,
                                      ELECTROLYSER_EFFICIENCY_KWH_KG),
                              RDiv(args.electricity_price_gbp_mwh, RInt(1000))), 3)
            /\ r.transport_gbp_kg =
                 Rounded(InForce(args.transport_cost_gbp_kg, TRANSPORT_COST_GBP_KG), 3)
            /\ r.hrs_opex_gbp_kg =
                 Rounded(InForce(args.hrs_opex_gbp_kg_override, HRS_OPEX_GBP_KG), 3)
            /\ r.capex_amortised_gbp_kg =
                 Rounded(PerKgProduced(RMul(E,
                     _annuity_factor(args.discount_rate, ELECTROLYSER_LIFETIME_YR))), 3)
            /\ r.opex_non_energy_gbp_kg =
                 Rounded(PerKgProduced(RMul(E, ELECTROLYSER_OPEX_FRAC)), 3)
            /\ r.stack_replacement_gbp_kg =
                 Rounded(PerKgProduced(RMul(E,
                     RDiv(STACK_REPLACEMENT_FRACTION, RInt(10)))), 3)
            /\ r.electricity_cost_gbp_kg = b.electricity_cost_gbp_kg
            /\ r.transport_gbp_kg = b.transport_gbp_kg
            /\ r.hrs_opex_gbp_kg = b.hrs_opex_gbp_kg

\* a call overriding the unit cost and the BoP fraction, nothing else, has
\* returned with a capital component above the baseline's
C8_Witness ==
    /\ LcohReturned
    /\ args.electrolyser_cost_per_kw = Some(RInt(900))
    /\ args.bop_fraction = Some(RFrac(9, 10))
    /\ args.electrolyser_efficiency_kwh_kg = None
    /\ args.transport_cost_gbp_kg = None
    /\ args.hrs_opex_gbp_kg_override = None
    /\ args.discount_rate = DISCOUNT_RATE
    /\ ret[1].capex_amortised_gbp_kg > 1262
    /\ ret[1].transport_gbp_kg = 850

(***************************************************************************)
(* C9: when only transport_cost_gbp_kg is overridden, by a delta d from    *)
(* its default, the returned transport_gbp_kg and                          *)
(* total_dispensed_cost_gbp_kg differ from those of the call without the   *)
(* override by exactly d, and the other six fields are the same.           *)
(***************************************************************************)
OnlyTransportOverridden(a) ==
    /\ a.transport_cost_gbp_kg # None
    /\ a.electrolyser_efficiency_kwh_kg = None
    /\ a.electrolyser_cost_per_kw = None
    /\ a.bop_fraction = None
    /\ a.hrs_opex_gbp_kg_override = None

\* the difference of two fields held in thousandths, as a rational
FieldDelta(after, before) == RFrac(after - before, 1000)

C9_TransportDeltaExact ==
    (LcohReturned /\ OnlyTransportOverridden(args)) =>
        LET r == ret[1]
            b == LcohOf([args EXCEPT !.transport_cost_gbp_kg = None])
            d == RSub(args.transport_cost_gbp_kg[1], TRANSPORT_COST_GBP_KG)
        IN  /\ REq(FieldDelta(r.transport_gbp_kg, b.transport_gbp_kg), d)
            /\ REq(FieldDelta(r.total_dispensed_cost_gbp_kg,
                              b.total_dispensed_cost_gbp_kg), d)
            /\ r.electricity_cost_gbp_kg = b.electricity_cost_gbp_kg
            /\ r.capex_amortised_gbp_kg = b.capex_amortised_gbp_kg
            /\ r.opex_non_energy_gbp_kg = b.opex_non_energy_gbp_kg
            /\ r.stack_replacement_gbp_kg = b.stack_replacement_gbp_kg
            /\ r.production_lcoh_gbp_kg = b.production_lcoh_gbp_kg
            /\ r.hrs_opex_gbp_kg = b.hrs_opex_gbp_kg

(***************************************************************************)
(* Calls of _annuity_factor: a zero rate and positive rates, horizons of   *)
(* 1 .. MaxYears years.                                                    *)
(***************************************************************************)
MaxYears == 25

AnnuityRates == {RInt(0), RFrac(2, 100), DISCOUNT_RATE, RFrac(25, 100)}

AnnuityArgs == [rate : AnnuityRates, n_years : 1..MaxYears]

InitAnnuity ==
    op = "_annuity_factor" /\ args \in AnnuityArgs /\ ret = Pending /\ frame = None
    /\ Startup

CallAnnuity ==
    /\ op = "_annuity_factor" /\ ret = Pending
    /\ ret' = << Exact[_annuity_factor(args.rate, args.n_years)] >>
    /\ UNCHANGED << op, args, frame, P, calls >>

SpecAnnuity == InitAnnuity /\ [][CallAnnuity]_vars

AnnuityReturned == op = "_annuity_factor" /\ Returned

(***************************************************************************)
(* C2: for every horizon n > 0, _annuity_factor(0, n) returns exactly 1/n. *)
(***************************************************************************)
C2_ZeroRateFactorIsOneOverN ==
    (AnnuityReturned /\ RIsZero(args.rate)) => REq(RVal(ret[1]), RFrac(1, args.n_years))

(***************************************************************************)
(* C7: for every rate r >= 0 and horizon n >= 1, the annual charge         *)
(* a = capex * _annuity_factor(r, n) amortises the capex: the series       *)
(* [-capex, a, ..., a] with n payments has _npv 0 at rate r.               *)
(***************************************************************************)
AmortisedCapex == {RInt(100), RInt(15750000)}

AmortisationSeries(capex, factor, n) ==
    << RNeg(capex) >> \o [i \in 1..n |-> RMul(capex, factor)]

C7_AnnualChargeAmortisesCapex ==
    AnnuityReturned =>
        \A capex \in AmortisedCapex :
            RIsZero(_npv(AmortisationSeries(capex, RVal(ret[1]), args.n_years), args.rate))

(***************************************************************************)
(* Calls of _npv: cash-flow series of up to MaxLen entries of either sign, *)
(* the empty series included, at negative, zero and positive rates.        *)
(***************************************************************************)
MaxLen == 3

SeriesOver(amounts, lengths) ==
    UNION {[1..n -> {RInt(a) : a \in amounts}] : n \in lengths}

NpvAmounts == {-2, 0, 1, 3}

NpvRates == {RFrac(-1, 2), RInt(0), DISCOUNT_RATE, RInt(2)}

NpvArgs == [cash_flows : SeriesOver(NpvAmounts, 0..MaxLen), discount_rate : NpvRates]

InitNpv == op = "_npv" /\ args \in NpvArgs /\ ret = Pending /\ frame = None
    /\ Startup

CallNpv ==
    /\ op = "_npv" /\ ret = Pending
    /\ ret' = << Exact[_npv(args.cash_flows, args.discount_rate)] >>
    /\ UNCHANGED << op, args, frame, P, calls >>

SpecNpv == InitNpv /\ [][CallNpv]_vars

NpvReturned == op = "_npv" /\ Returned

(***************************************************************************)
(* C6: for every cash-flow sequence cf (index 0 = year 0, entries of any   *)
(* sign) and discount rate r, _npv(cf, r) is the sum over all t of         *)
(* cf[t] / (1+r)^t; at r = 0 it is the undiscounted sum of the entries.    *)
(***************************************************************************)
RECURSIVE DiscountedSum(_, _, _)
DiscountedSum(cf, r, t) ==
    IF t >= Len(cf) THEN RInt(0)
    ELSE RAdd(RDiv(cf[t + 1], RPow(RAdd(RInt(1), r), t)), DiscountedSum(cf, r, t + 1))

RECURSIVE UndiscountedSum(_, _)
UndiscountedSum(cf, t) ==
    IF t >= Len(cf) THEN RInt(0) ELSE RAdd(cf[t + 1], UndiscountedSum(cf, t + 1))

C6_NpvIsDiscountedSum ==
    NpvReturned =>
        /\ REq(RVal(ret[1]), DiscountedSum(args.cash_flows, args.discount_rate, 0))
        /\ RIsZero(args.discount_rate) =>
               REq(RVal(ret[1]), UndiscountedSum(args.cash_flows, 0))

\* _npv has returned for a three-year series with a negative entry at a
\* non-zero rate, and discounting changed the sum
C6_Witness ==
    /\ NpvReturned
    /\ args.cash_flows = << RInt(-2), RInt(3), RInt(1) >>
    /\ args.discount_rate = DISCOUNT_RATE
    /\ ~REq(RVal(ret[1]), RInt(2))

(***************************************************************************)
(* Calls of _irr: every series of 1 .. MaxLen entries over IrrAmounts;     *)
(* project series [-C, B, ..., B] of an outlay C and 1 .. MaxLen equal     *)
(* benefits B; and the series calculate_npv_irr builds at the baseline.    *)
(* The call runs one step at a time: the sign-change check, then the       *)
(* bisection iterations, then the return after the last iteration.         *)
(***************************************************************************)
IrrAmounts == {-2, 0, 1, 3}

IrrOutlays == {100, 1000, 20000}

IrrBenefits == {60, 400, 1500, 7000}

ProjectSeries(outlay, benefit, n) ==
    << RInt(-outlay) >> \o [i \in 1..n |-> RInt(benefit)]

\* the series of a record of whole-pound flows
FlowSeries(flows, n) == ProjectSeries(flows.total_capex_gbp, flows.annual_benefit_gbp, n)

BaselineSeries ==
    FlowSeries(Values(
        [total_capex_gbp |->
             calculate_capex(ELECTROLYSER_COST_PER_KW, BOP_FRACTION).total_capex_gbp,
         annual_benefit_gbp |->
             calculate_annual_costs(ELECTRICITY_PRICE_GBP_MWH, CARBON_PRICE_BASELINE,
                                    DIESEL_PRICE_GBP_LITRE).total_annual_benefit_gbp]),
        PROJECT_LIFE_YR)

IrrSeries ==
    SeriesOver(IrrAmounts, 1..MaxLen)
    \cup {ProjectSeries(c, b, n) : c \in IrrOutlays, b \in IrrBenefits, n \in 1..MaxLen}
    \cup {BaselineSeries}

InitIrr ==
    op = "_irr" /\ args \in [cash_flows : IrrSeries] /\ ret = Pending /\ frame = None
    /\ Startup

\* lines 56-62: the NPV at both ends of the domain and the sign-change check
IrrEnter ==
    /\ op = "_irr" /\ ret = Pending /\ frame = None
    /\ \E entry \in {irr_enter(args.cash_flows)} :
           /\ ret' = IF entry.returns THEN << entry.value >> ELSE Pending
           /\ frame' = entry.frame
    /\ UNCHANGED << op, args, P, calls >>

\* lines 65-73: one iteration of the bisection loop
IrrIterate ==
    /\ op = "_irr" /\ ret = Pending /\ frame # None
    /\ irr_in_range(frame[1].iteration)
    /\ \E step \in {irr_iterate(args.cash_flows, frame[1])} :
           /\ ret' = IF step.returns THEN << step.value >> ELSE Pending
           /\ frame' = step.frame
    /\ UNCHANGED << op, args, P, calls >>

\* line 75: the loop has run all its iterations
IrrExhaust ==
    /\ op = "_irr" /\ ret = Pending /\ frame # None
    /\ ~irr_in_range(frame[1].iteration)
    /\ ret' = << Some(irr_midpoint(frame[1].lo, frame[1].hi)) >>
    /\ UNCHANGED << op, args, frame, P, calls >>

NextIrr == IrrEnter \/ IrrIterate \/ IrrExhaust

SpecIrr == InitIrr /\ [][NextIrr]_vars

IrrReturned == op = "_irr" /\ Returned

\* A call that has not returned takes its next step: _irr runs to its end
\* without waiting for anything.  This is weak fairness of NextIrr,
\* WF_vars(NextIrr), with its enabling condition written out: the guards of
\* IrrEnter, IrrIterate and IrrExhaust cover every state in which the call
\* has not returned, and each of their steps changes ret or frame.
SpecIrrLive == SpecIrr /\ ([]<>IrrReturned \/ []<><<NextIrr>>_vars)


(***************************************************************************)
(* C3: for every series [-C, B, ..., B] with C > 0 whose NPV changes sign  *)
(* on the rate interval [-0.5, 2.0] (it is positive at -0.5 and negative   *)
(* at 2.0, and falls with the rate in between), _irr returns a rate r, not *)
(* None, and |NPV(r)| < 1 currency unit.                                   *)
(***************************************************************************)
IsProjectSeries(cf) ==
    /\ Len(cf) >= 2
    /\ RSign(cf[1]) < 0
    /\ RSign(cf[2]) > 0
    /\ \A i \in 2..Len(cf) : cf[i] = cf[2]

NpvChangesSign(cf) ==
    RSign(_npv(cf, RVal(irr_lo))) > 0 /\ RSign(_npv(cf, RVal(irr_hi))) < 0

C3_IrrOfProjectSeriesWithinOneUnit ==
    (IrrReturned /\ IsProjectSeries(args.cash_flows) /\ NpvChangesSign(args.cash_flows)) =>
        /\ ret[1] # None
        /\ RLt(RAbs(_npv(args.cash_flows, RVal(ret[1][1]))), RInt(1))

\* _irr has returned a rate for a project series after several bisections
C3_Witness ==
    /\ IrrReturned
    /\ args.cash_flows = ProjectSeries(1000, 400, 3)
    /\ NpvChangesSign(args.cash_flows)
    /\ frame # None /\ frame[1].iteration >= 3
    /\ ret[1] # None

(***************************************************************************)
(* C4: whenever NPV(-0.5) * NPV(2.0) >= 0, the product being exactly zero  *)
(* included, _irr returns None and never starts the bisection.             *)
(***************************************************************************)
C4_NoIrrWhenProductNotNegative ==
    (IrrReturned /\ RSign(_npv(args.cash_flows, RVal(irr_lo)))
                    * RSign(_npv(args.cash_flows, RVal(irr_hi))) >= 0) =>
        ret[1] = None /\ frame = None

(***************************************************************************)
(* C5: for every cash-flow series with no sign change (all entries >= 0,   *)
(* or all entries <= 0), _irr returns None.                                *)
(***************************************************************************)
NoSignChange(cf) ==
    \/ \A i \in 1..Len(cf) : RSign(cf[i]) >= 0
    \/ \A i \in 1..Len(cf) : RSign(cf[i]) <= 0

C5_NoIrrWithoutSignChange ==
    (IrrReturned /\ NoSignChange(args.cash_flows)) => ret[1] = None

(***************************************************************************)
(* Calls of calculate_annual_costs over electricity, carbon and diesel     *)
(* prices, a diesel price low enough for a negative benefit included.      *)
(***************************************************************************)
AnnualElectricityPrices == {RFrac(456, 10), ELECTRICITY_PRICE_GBP_MWH, RFrac(684, 10), RInt(80)}

AnnualCarbonPrices == {RInt(0), RInt(20), CARBON_PRICE_BASELINE, RInt(200)}

AnnualDieselPrices == {RFrac(50, 100), RFrac(112, 100), DIESEL_PRICE_GBP_LITRE, RFrac(168, 100)}

AnnualArgs ==
    [electricity_price_gbp_mwh : AnnualElectricityPrices,
     carbon_price_gbp_tonne : AnnualCarbonPrices,
     diesel_price_gbp_litre : AnnualDieselPrices]

InitAnnual ==
    op = "calculate_annual_costs" /\ args \in AnnualArgs /\ ret = Pending /\ frame = None
    /\ Startup

CallAnnual ==
    /\ op = "calculate_annual_costs" /\ ret = Pending
    /\ ret' = << Values(calculate_annual_costs(args.electricity_price_gbp_mwh,
                                               args.carbon_price_gbp_tonne,
                                               args.diesel_price_gbp_litre)) >>
    /\ UNCHANGED << op, args, frame, P, calls >>

SpecAnnual == InitAnnual /\ [][CallAnnual]_vars

AnnualReturned == op = "calculate_annual_costs" /\ Returned

(***************************************************************************)
(* C10: the fields of every AnnualCosts that calculate_annual_costs        *)
(* returns satisfy total_annual_benefit_gbp = fuel_saving_gbp +            *)
(* carbon_saving_value_gbp and fuel_saving_gbp = diesel_fuel_cost_gbp -    *)
(* h2_fuel_cost_gbp, a negative total included.                            *)
(***************************************************************************)
C10_BenefitIsSumOfSavings ==
    AnnualReturned =>
        /\ ret[1].total_annual_benefit_gbp =
               ret[1].fuel_saving_gbp + ret[1].carbon_saving_value_gbp
        /\ ret[1].fuel_saving_gbp =
               ret[1].diesel_fuel_cost_gbp - ret[1].h2_fuel_cost_gbp


(***************************************************************************)
(* Calls of calculate_npv_irr at the baseline electricity price.  Diesel   *)
(* prices: below breakeven, the price at which the annual benefit rounds   *)
(* to zero, a low and the baseline price, and a price at which a 3-year    *)
(* project about breaks even at 8%.  Project lives are short, with the     *)
(* 20-year baseline life for a few calls; a call's locals are kept in      *)
(* frame when it ends.                                                     *)
(***************************************************************************)
FinanceDieselPrices ==
    {RFrac(50, 100), RFrac(93636705, 100000000), RFrac(112, 100),
     DIESEL_PRICE_GBP_LITRE, RFrac(1885659, 1000000)}

FinanceCarbonPrices == {RInt(0), CARBON_PRICE_BASELINE}

FinanceRates == {RInt(0), DISCOUNT_RATE}

FinanceLives == {-1, 0, 3}

FinanceArgs ==
    [electricity_price_gbp_mwh : {ELECTRICITY_PRICE_GBP_MWH},
     carbon_price_gbp_tonne : FinanceCarbonPrices, discount_rate : FinanceRates,
     project_life_yr : FinanceLives, diesel_price_gbp_litre : FinanceDieselPrices]
    \cup
    [electricity_price_gbp_mwh : {ELECTRICITY_PRICE_GBP_MWH},
     carbon_price_gbp_tonne : FinanceCarbonPrices, discount_rate : {DISCOUNT_RATE},
     project_life_yr : {PROJECT_LIFE_YR},
     diesel_price_gbp_litre : {RFrac(112, 100), DIESEL_PRICE_GBP_LITRE}]

InitFinance ==
    op = "calculate_npv_irr" /\ args \in FinanceArgs /\ ret = Pending /\ frame = None
    /\ Startup

CallNpvIrr ==
    /\ op = "calculate_npv_irr" /\ ret = Pending
    /\ \E loc \in {calculate_npv_irr_locals(args.electricity_price_gbp_mwh,
                                            args.carbon_price_gbp_tonne,
                                            args.project_life_yr,
                                            args.diesel_price_gbp_litre)} :
           /\ ret' = << financial_analysis[loc, Exact[args.discount_rate],
                                           args.project_life_yr] >>
           /\ frame' = Some(loc)
    /\ UNCHANGED << op, args, P, calls >>

SpecFinance == InitFinance /\ [][CallNpvIrr]_vars

NpvIrrEnded == op = "calculate_npv_irr" /\ Returned

NpvIrrReturned == NpvIrrEnded /\ ret[1].raised = ""

(***************************************************************************)
(* Calls of diesel_breakeven_price: the electricity prices of the          *)
(* sensitivity sweep and a low one, carbon prices from 0 to 200 GBP/t.     *)
(***************************************************************************)
BreakevenElectricityPrices ==
    {RInt(30), RFrac(456, 10), ELECTRICITY_PRICE_GBP_MWH, RFrac(684, 10), RInt(80)}

BreakevenCarbonPrices == {RInt(20 * k) : k \in 0..10}

BreakevenArgs ==
    [electricity_price_gbp_mwh : BreakevenElectricityPrices,
     carbon_price_gbp_tonne : BreakevenCarbonPrices]

InitBreakeven ==
    op = "diesel_breakeven_price" /\ args \in BreakevenArgs /\ ret = Pending
    /\ frame = None
    /\ Startup

CallBreakeven ==
    /\ op = "diesel_breakeven_price" /\ ret = Pending
    /\ ret' = << IntOf[Exact[diesel_breakeven_price(args.electricity_price_gbp_mwh,
                                                    args.carbon_price_gbp_tonne)]] >>
    /\ UNCHANGED << op, args, frame, P, calls >>

SpecBreakeven == InitBreakeven /\ [][CallBreakeven]_vars

BreakevenReturned == op = "diesel_breakeven_price" /\ Returned
(***************************************************************************)
(* C20: with baseline parameters (electricity 57 GBP/MWh, 8% discount      *)
(* rate, all overrides absent), calculate_lcoh returns a                   *)
(* total_dispensed_cost_gbp_kg within 0.05 of 8.36 GBP/kg.                 *)
(***************************************************************************)
BaselineLcohArgs ==
    [electricity_price_gbp_mwh |-> ELECTRICITY_PRICE_GBP_MWH, discount_rate |-> DISCOUNT_RATE,
     electrolyser_efficiency_kwh_kg |-> None, electrolyser_cost_per_kw |-> None,
     bop_fraction |-> None, transport_cost_gbp_kg |-> None,
     hrs_opex_gbp_kg_override |-> None]

\* 8.36 GBP/kg and 0.05 GBP/kg are 8360 and 50 thousandths
C20_BaselineTotalNearCalibration ==
    (LcohReturned /\ args = BaselineLcohArgs) =>
        /\ ret[1].total_dispensed_cost_gbp_kg >= 8360 - 50
        /\ ret[1].total_dispensed_cost_gbp_kg <= 8360 + 50

(***************************************************************************)
(* C15: _irr rejects a degenerate cash-flow series (all entries zero, or a *)
(* single entry) with an invalid-input error: a call with such a series    *)
(* never returns, neither a rate nor None.                                 *)
(***************************************************************************)
Degenerate(cf) == Len(cf) = 1 \/ \A i \in 1..Len(cf) : RIsZero(cf[i])

C15_DegenerateSeriesRejected ==
    (op = "_irr" /\ Degenerate(args.cash_flows)) => ~Returned


\* the FinancialAnalysis a call of calculate_npv_irr returned
Analysis == ret[1].result[1]

\* q is n / d rounded to the nearest integer, ties to even; d > 0
IsRoundedQuotient(q, n, d) ==
    LET twice == 2 * (n - q * d)
    IN  /\ twice <= d /\ -twice <= d
        /\ (twice = d \/ -twice = d) => q % 2 = 0

(***************************************************************************)
(* C11: in the result of calculate_npv_irr, simple_payback_yr is total     *)
(* capex / annual benefit (to the field's one decimal) when the annual     *)
(* benefit is > 0, and infinite when the annual benefit is zero or         *)
(* negative: the division is made only by a positive benefit.              *)
(***************************************************************************)
C11_PaybackGuarded ==
    NpvIrrReturned =>
        IF Analysis.annual_benefit_gbp > 0
        THEN /\ Analysis.simple_payback_yr.finite
             /\ IsRoundedQuotient(Analysis.simple_payback_yr.tenths,
                                  10 * Analysis.total_capex_gbp,
                                  Analysis.annual_benefit_gbp)
        ELSE ~Analysis.simple_payback_yr.finite

\* a call returned with an annual benefit of exactly zero and an infinite
\* payback
C11_ZeroBenefitInfinitePayback ==
    /\ NpvIrrReturned
    /\ Analysis.annual_benefit_gbp = 0
    /\ ~Analysis.simple_payback_yr.finite

(***************************************************************************)
(* C12: the cash-flow series of calculate_npv_irr has N+1 entries, entry 0 *)
(* -total capex and entries 1..N the annual benefit, and when _irr found   *)
(* no IRR the call still returns a result, with irr_pct None.              *)
(***************************************************************************)
C12_SeriesAndAbsentIrr ==
    (NpvIrrEnded /\ args.project_life_yr >= 0) =>
        /\ Len(frame[1].cash_flows) = args.project_life_yr + 1
        /\ frame[1].cash_flows[1] = RInt(-frame[1].total_capex)
        /\ \A i \in 2..(args.project_life_yr + 1) :
               frame[1].cash_flows[i] = RInt(frame[1].annual_benefit)
        /\ frame[1].irr_val = None =>
               /\ ret[1].raised = ""
               /\ ret[1].result # None
               /\ Analysis.irr_pct = None

(***************************************************************************)
(* C13: in every result of calculate_npv_irr with an IRR, an IRR above the *)
(* discount rate comes with NPV > 0 and a benefit-cost ratio > 1, and an   *)
(* IRR below the discount rate with NPV < 0 and a benefit-cost ratio < 1.  *)
(* The ratio is held in thousandths.                                       *)
(***************************************************************************)
C13_IrrAgreesWithNpvAndRatio ==
    (NpvIrrReturned /\ frame[1].irr_val # None) =>
        /\ QLt[Exact[args.discount_rate], frame[1].irr_val[1]] =>
               Analysis.npv_gbp > 0 /\ Analysis.benefit_cost_ratio > 1000
        /\ QLt[frame[1].irr_val[1], Exact[args.discount_rate]] =>
               Analysis.npv_gbp < 0 /\ Analysis.benefit_cost_ratio < 1000

\* the present value at rate r of n annual amounts b paid at the end of
\* years 1..n
AnnuityValue(b, r, n) == _npv(<< RInt(0) >> \o [i \in 1..n |-> RInt(b)], r)

(***************************************************************************)
(* C14: for every discount rate r >= 0, zero included, calculate_npv_irr   *)
(* returns a result; its benefit-cost ratio is the present value of N      *)
(* annual benefits at r over total capex, and at r = 0 its NPV is the      *)
(* plain sum of the cash flows.                                            *)
(***************************************************************************)
C14_ResultAtEveryRate ==
    (NpvIrrEnded /\ RSign(args.discount_rate) >= 0 /\ args.project_life_yr >= 0) =>
        /\ ret[1].raised = ""
        /\ ret[1].result # None
        /\ Analysis.benefit_cost_ratio =
               IntOf[Exact[RoundTo(
                   RDiv(AnnuityValue(frame[1].annual_benefit, args.discount_rate,
                                     args.project_life_yr),
                        RInt(frame[1].total_capex)), 3)]]
        /\ RIsZero(args.discount_rate) =>
               Analysis.npv_gbp =
                   args.project_life_yr * frame[1].annual_benefit - frame[1].total_capex

(***************************************************************************)
(* C16: calculate_npv_irr called with a project life <= 0 fails with an    *)
(* invalid-input error: it never returns a FinancialAnalysis.              *)
(***************************************************************************)
C16_NonPositiveLifeRejected ==
    (NpvIrrEnded /\ args.project_life_yr <= 0) =>
        ret[1].result = None

\* the annual diesel litres of the fleet
AnnualDieselLitres ==
    RDiv(RInt(TOTAL_BUSES * DAILY_MILEAGE_KM * DAYS_PER_YEAR), DIESEL_FUEL_ECONOMY_KM_L)

\* litres * p + diesel CO2 tonnes * c - hydrogen demand * total dispensed
\* LCOH at E, for a price p in thousandths of a pound per litre
BreakevenResidual(E, c, p) ==
    RSub(RAdd(RMul(AnnualDieselLitres, RFrac(p, 1000)),
              RMul(calculate_emissions(E).diesel_annual_co2_tonnes, c)),
         RMul(calculate_demand.annual_total_kg,
              calculate_lcoh(E, DISCOUNT_RATE, None, None, None, None, None)
                  .total_dispensed_cost_gbp_kg))

(***************************************************************************)
(* C17: the price p returned by diesel_breakeven_price(E, c) solves        *)
(* litres * p + diesel CO2 tonnes * c = hydrogen demand * total dispensed  *)
(* LCOH at E, to the three decimals p is rounded to (the two sides differ  *)
(* by at most litres * 0.0005); and with c = 0, calculate_annual_costs at  *)
(* diesel price p reports a fuel saving that is zero to the same rounding  *)
(* (at most litres * 0.0005, plus half a pound for its own rounding).      *)
(***************************************************************************)
C17_BreakevenSolvesEquation ==
    BreakevenReturned =>
        /\ ~RLt(RDiv(AnnualDieselLitres, RInt(2000)),
                RAbs(BreakevenResidual(args.electricity_price_gbp_mwh,
                                       args.carbon_price_gbp_tonne, ret[1])))
        /\ RIsZero(args.carbon_price_gbp_tonne) =>
               ~RLt(RAdd(RDiv(AnnualDieselLitres, RInt(2000)), RFrac(1, 2)),
                    RAbs(calculate_annual_costs(args.electricity_price_gbp_mwh, RInt(0),
                                                RFrac(ret[1], 1000)).fuel_saving_gbp))

\* a positive breakeven price returned for a carbon price above zero
C17_BreakevenWithCarbonPrice ==
    /\ BreakevenReturned
    /\ ~RIsZero(args.carbon_price_gbp_tonne)
    /\ ret[1] > 0

(***************************************************************************)
(* The engine's view of the parameters.  economics.py:16-26 (and the same  *)
(* lines of infrastructure.py, emissions.py and demand.py) read            *)
(* `from src.parameters import X`: when the engine is imported each name X *)
(* is bound, in the engine's own namespace, to the value the module holds  *)
(* at that moment.  A later assignment to the attribute of the module      *)
(* rebinds the module's name, not the engine's.                            *)
(***************************************************************************)
\* a plausible slip: the engine reading the attribute of the module at call
\* time (P.X)
engine_global_read_from_module(module, attr) == module[attr]

\* the engine's global X while the parameters module is `module`
engine_global(module, attr) == ParameterDefaults[attr]

\* economics.py:92-163 called with argument record a while the parameters
\* module is `module`: an absent override falls back to the engine's global
\* (lines 119-123)
lcoh_call(module, a) ==
    Values(calculate_lcoh(
        a.electricity_price_gbp_mwh, a.discount_rate,
        Some(OrDefault(a.electrolyser_efficiency_kwh_kg,
                       engine_global(module, "ELECTROLYSER_EFFICIENCY_KWH_KG"))),
        Some(OrDefault(a.electrolyser_cost_per_kw,
                       engine_global(module, "ELECTROLYSER_COST_PER_KW"))),
        Some(OrDefault(a.bop_fraction, engine_global(module, "BOP_FRACTION"))),
        Some(OrDefault(a.transport_cost_gbp_kg,
                       engine_global(module, "TRANSPORT_COST_GBP_KG"))),
        Some(OrDefault(a.hrs_opex_gbp_kg_override,
                       engine_global(module, "HRS_OPEX_GBP_KG")))))

EngineOps ==
    {"calculate_lcoh", "calculate_annual_costs", "calculate_npv_irr",
     "diesel_breakeven_price"}

\* the result of engine operation o called with argument record a while the
\* parameters module is `module`
engine_call(module, o, a) ==
    CASE o = "calculate_lcoh" -> lcoh_call(module, a)
      [] o = "calculate_annual_costs" ->
             Values(calculate_annual_costs(a.electricity_price_gbp_mwh,
                                           a.carbon_price_gbp_tonne,
                                           a.diesel_price_gbp_litre))
      [] o = "calculate_npv_irr" ->
             calculate_npv_irr(a.electricity_price_gbp_mwh, a.carbon_price_gbp_tonne,
                               a.discount_rate, a.project_life_yr,
                               a.diesel_price_gbp_litre)
      [] o = "diesel_breakeven_price" ->
             IntOf[Exact[diesel_breakeven_price(a.electricity_price_gbp_mwh,
                                                a.carbon_price_gbp_tonne)]]

(***************************************************************************)
(* src/src/sensitivity.py: plot_tornado_lcoh, one statement group at a     *)
(* time.  frame holds its locals: pc (the position), k (the index into     *)
(* params), baseline_lcoh, orig, low_val, high_val and results; LCOH       *)
(* values are in thousandths of GBP/kg.  The chart drawn from the sorted   *)
(* results is not modelled: the call returns the sorted results.           *)
(***************************************************************************)
\* lines 388-396
params ==
    << [label |-> "Electricity price", key |-> "elec"],
       [label |-> "Electrolyser efficiency", key |-> "eff"],
       [label |-> "CAPEX (electrolyser)", key |-> "capex"],
       [label |-> "BoP fraction", key |-> "bop"],
       [label |-> "Transport cost", key |-> "trans"],
       [label |-> "HRS OPEX", key |-> "hrs"],
       [label |-> "Discount rate", key |-> "dr"] >>

\* the multipliers of every entry of params
low_m == RFrac(80, 100)

high_m == RFrac(120, 100)

\* lines 422-428
attr_map(key) ==
    CASE key = "eff" -> "ELECTROLYSER_EFFICIENCY_KWH_KG"
      [] key = "capex" -> "ELECTROLYSER_COST_PER_KW"
      [] key = "bop" -> "BOP_FRACTION"
      [] key = "trans" -> "TRANSPORT_COST_GBP_KG"
      [] key = "hrs" -> "HRS_OPEX_GBP_KG"

\* a plausible slip: no restore, the attribute left at orig * high_m
tornado_restored_left_patched(module, attr, orig) == module

\* line 436: the module after setattr(P, attr, orig)
tornado_restored(module, attr, orig) == [module EXCEPT ![attr] = orig]

\* the arguments of the calls of lines 407-411 for entry key and multiplier m
tornado_args(key, m) ==
    IF key = "elec"
    THEN [BaselineLcohArgs EXCEPT
              !.electricity_price_gbp_mwh = RMul(ELECTRICITY_PRICE_GBP_MWH, m)]
    ELSE [BaselineLcohArgs EXCEPT !.discount_rate = RMul(DISCOUNT_RATE, m)]

Magnitude(x) == IF x < 0 THEN -x ELSE x

\* line 443: the sort key
swing(x) == Magnitude(x.high - x.low)

\* the place of entry i after a stable sort by swing, descending
place(results, i) ==
    1 + Cardinality({j \in 1..Len(results) :
                        \/ swing(results[j]) > swing(results[i])
                        \/ swing(results[j]) = swing(results[i]) /\ j < i})

\* line 443: results.sort(key=..., reverse=True)
sorted_by_swing(results) ==
    << >> \o [p \in 1..Len(results) |->
                 results[CHOOSE i \in 1..Len(results) : place(results, i) = p]]

\* an engine call and its result, as the session records them
Recorded(o, a, r) == [op |-> o, args |-> a, result |-> r]

Tornado == op = "plot_tornado_lcoh" /\ ret = Pending

At(pc) == Tornado /\ frame[1].pc = pc

\* the entry of params the loop is at
Entry == params[frame[1].k]

\* the entry is passed to calculate_lcoh as an argument (lines 406-411)
ByArgument == Entry.key \in {"elec", "dr"}

\* plot_tornado_lcoh is at a call of calculate_lcoh: line 385, lines 407,
\* 410 and 433, lines 408, 411 and 435
AtCall == Tornado /\ frame[1].pc \in {"baseline", "low", "high"}

\* the arguments of that call
tornado_call_args ==
    IF frame[1].pc = "baseline" \/ ~ByArgument THEN BaselineLcohArgs
    ELSE tornado_args(Entry.key, IF frame[1].pc = "low" THEN low_m ELSE high_m)

\* the locals once that call has returned total_dispensed_cost_gbp_kg = v
tornado_after_call(f, v) ==
    CASE f.pc = "baseline" -> [f EXCEPT !.baseline_lcoh = v, !.pc = "loop", !.k = 1]
      [] f.pc = "low" ->
             [f EXCEPT !.low_val = Some(v),
                       !.pc = IF ByArgument THEN "high" ELSE "patch_high"]
      [] f.pc = "high" ->
             [f EXCEPT !.high_val = Some(v),
                       !.pc = IF ByArgument THEN "append" ELSE "restore"]

\* lines 404-412: the next entry of params and the branch on its key
TornadoBranch ==
    /\ At("loop") /\ frame[1].k <= Len(params)
    /\ frame' = Some([frame[1] EXCEPT !.pc = IF ByArgument THEN "low" ELSE "patch_low"])
    /\ UNCHANGED << op, args, ret, P, calls >>

\* lines 414-432: orig = getattr(P, attr); setattr(P, attr, orig * low_m)
TornadoPatchLow ==
    /\ At("patch_low")
    /\ P' = [P EXCEPT ![attr_map(Entry.key)] = RMul(P[attr_map(Entry.key)], low_m)]
    /\ frame' = Some([frame[1] EXCEPT !.orig = Some(P[attr_map(Entry.key)]),
                                      !.pc = "low"])
    /\ UNCHANGED << op, args, ret, calls >>

\* line 434: setattr(P, attr, orig * high_m)
TornadoPatchHigh ==
    /\ At("patch_high")
    /\ P' = [P EXCEPT ![attr_map(Entry.key)] = RMul(frame[1].orig[1], high_m)]
    /\ frame' = Some([frame[1] EXCEPT !.pc = "high"])
    /\ UNCHANGED << op, args, ret, calls >>

\* line 436: setattr(P, attr, orig)
TornadoRestore ==
    /\ At("restore")
    /\ P' = tornado_restored(P, attr_map(Entry.key), frame[1].orig[1])
    /\ frame' = Some([frame[1] EXCEPT !.pc = "append"])
    /\ UNCHANGED << op, args, ret, calls >>

\* line 440
TornadoAppend ==
    /\ At("append")
    /\ frame' = Some([frame[1] EXCEPT
           !.pc = "loop", !.k = @ + 1,
           !.results = Append(@,
               [label |-> Entry.label,
                low   |-> frame[1].low_val[1] - frame[1].baseline_lcoh,
                high  |-> frame[1].high_val[1] - frame[1].baseline_lcoh])])
    /\ UNCHANGED << op, args, ret, P, calls >>

\* line 443, after the loop: the sort; the sorted results are what is drawn
TornadoFinish ==
    /\ At("loop") /\ frame[1].k > Len(params)
    /\ ret' = << sorted_by_swing(frame[1].results) >>
    /\ frame' = Some([frame[1] EXCEPT !.pc = "done"])
    /\ UNCHANGED << op, args, P, calls >>

(***************************************************************************)
(* A sweep session, as main.py and generate_all_figures run one: an engine *)
(* call, then plot_tornado_lcoh, then the same engine call again.  The     *)
(* engine runs the call at hand, the session's or plot_tornado_lcoh's, and *)
(* the session records it.                                                 *)
(***************************************************************************)
BaselineFinanceArgs ==
    [electricity_price_gbp_mwh |-> ELECTRICITY_PRICE_GBP_MWH,
     carbon_price_gbp_tonne |-> CARBON_PRICE_BASELINE,
     discount_rate |-> DISCOUNT_RATE, diesel_price_gbp_litre |-> DIESEL_PRICE_GBP_LITRE]

SessionCalls ==
    {[op |-> "calculate_lcoh", args |-> BaselineLcohArgs],
     [op |-> "calculate_lcoh",
      args |-> [BaselineLcohArgs EXCEPT !.electrolyser_cost_per_kw = Some(RInt(900))]],
     [op |-> "calculate_annual_costs",
      args |-> [f \in {"electricity_price_gbp_mwh", "carbon_price_gbp_tonne",
                       "diesel_price_gbp_litre"} |-> BaselineFinanceArgs[f]]],
     [op |-> "calculate_npv_irr",
      args |-> [f \in DOMAIN BaselineFinanceArgs \cup {"project_life_yr"} |->
                   IF f = "project_life_yr" THEN 3 ELSE BaselineFinanceArgs[f]]],
     [op |-> "diesel_breakeven_price",
      args |-> [f \in {"electricity_price_gbp_mwh", "carbon_price_gbp_tonne"} |->
                   BaselineFinanceArgs[f]]]}

InitSession ==
    /\ \E c \in SessionCalls : op = c.op /\ args = c.args
    /\ ret = Pending /\ frame = None
    /\ Startup

\* the engine call at hand runs and returns to its caller
EngineCall ==
    /\ AtCall \/ (op \in EngineOps /\ ret = Pending)
    /\ \E o \in {IF AtCall THEN "calculate_lcoh" ELSE op},
          a \in {IF AtCall THEN tornado_call_args ELSE args} :
           \E r \in {engine_call(P, o, a)} :
               /\ calls' = Append(calls, Recorded(o, a, r))
               /\ IF AtCall
                  THEN /\ frame' = Some(tornado_after_call(frame[1],
                                                           r.total_dispensed_cost_gbp_kg))
                       /\ UNCHANGED ret
                  ELSE /\ ret' = << r >>
                       /\ UNCHANGED frame
    /\ UNCHANGED << op, args, P >>

\* plot_tornado_lcoh is called
TornadoEnter ==
    /\ op \in EngineOps /\ Returned /\ Len(calls) = 1
    /\ op' = "plot_tornado_lcoh" /\ args' = None /\ ret' = Pending
    /\ frame' = Some([pc |-> "baseline", k |-> 0, baseline_lcoh |-> 0, orig |-> None,
                      low_val |-> None, high_val |-> None, results |-> << >>])
    /\ UNCHANGED << P, calls >>

\* the engine call of the start of the session is made again after the sweep
SessionCallAgain ==
    /\ op = "plot_tornado_lcoh" /\ Returned
    /\ op' = calls[1].op /\ args' = calls[1].args /\ ret' = Pending
    /\ frame' = None
    /\ UNCHANGED << P, calls >>

NextSession ==
    \/ EngineCall \/ TornadoEnter \/ TornadoBranch \/ TornadoPatchLow
    \/ TornadoPatchHigh \/ TornadoRestore \/ TornadoAppend \/ TornadoFinish
    \/ SessionCallAgain

SpecSession == InitSession /\ [][NextSession]_vars

(***************************************************************************)
(* C18: two calls of the same engine operation with identical arguments    *)
(* return identical results, whatever ran before or between them,          *)
(* plot_tornado_lcoh and its own calls included.                           *)
(***************************************************************************)
C18_SameCallSameResult ==
    \A i, j \in 1..Len(calls) :
        (calls[i].op = calls[j].op /\ calls[i].args = calls[j].args) =>
            calls[i].result = calls[j].result

\* the session's call has been repeated after plot_tornado_lcoh, which made
\* calls of calculate_lcoh() while attributes of the module were patched
C18_RepeatedAfterTornado ==
    /\ op \in EngineOps /\ Returned /\ Len(calls) > 15
    /\ calls[Len(calls)].op = calls[1].op
    /\ calls[Len(calls)].args = calls[1].args

(***************************************************************************)
(* C19: no operation changes a parameter in place: in every state of a     *)
(* session, plot_tornado_lcoh included, every attribute of the parameters  *)
(* module holds its startup default.                                       *)
(***************************************************************************)
C19_ParametersNeverMutated == P = ParameterDefaults

(***************************************************************************)
(* C22: in plot_tornado_lcoh, for each of the seven parameters, the low    *)
(* and high values recorded are the total dispensed LCOH with that one     *)
(* parameter at 0.8 and 1.2 times its baseline and all others at baseline: *)
(* they equal calculate_lcoh called with the corresponding explicit        *)
(* argument or override.  Checked where the entry is appended to results   *)
(* (line 440), on both values.                                             *)
(***************************************************************************)
\* the call of calculate_lcoh with the parameter of entry key at m times its
\* baseline, passed as the argument or override calculate_lcoh has for it
OneAtATimeArgs(key, m) ==
    CASE key \in {"elec", "dr"} -> tornado_args(key, m)
      [] key = "eff" ->
             [BaselineLcohArgs EXCEPT !.electrolyser_efficiency_kwh_kg =
                                          Some(RMul(ELECTROLYSER_EFFICIENCY_KWH_KG, m))]
      [] key = "capex" ->
             [BaselineLcohArgs EXCEPT !.electrolyser_cost_per_kw =
                                          Some(RMul(ELECTROLYSER_COST_PER_KW, m))]
      [] key = "bop" ->
             [BaselineLcohArgs EXCEPT !.bop_fraction = Some(RMul(BOP_FRACTION, m))]
      [] key = "trans" ->
             [BaselineLcohArgs EXCEPT !.transport_cost_gbp_kg =
                                          Some(RMul(TRANSPORT_COST_GBP_KG, m))]
      [] key = "hrs" ->
             [BaselineLcohArgs EXCEPT !.hrs_opex_gbp_kg_override =
                                          Some(RMul(HRS_OPEX_GBP_KG, m))]

C22_TornadoValuesAreOneAtATime ==
    At("append") =>
        \A side \in {[m |-> low_m, recorded |-> frame[1].low_val[1]],
                     [m |-> high_m, recorded |-> frame[1].high_val[1]]} :
            side.recorded =
                LcohOf(OneAtATimeArgs(Entry.key, side.m)).total_dispensed_cost_gbp_kg

(***************************************************************************)
(* C26: when plot_tornado_lcoh finishes, every attribute of the parameters *)
(* module that it patched holds the value it had before the call, and no   *)
(* other attribute was changed.  (plot_tornado_lcoh is entered with the    *)
(* module as imported.)                                                    *)
(***************************************************************************)
C26_TornadoRestoresParameters ==
    (op = "plot_tornado_lcoh" /\ Returned) =>
        \A attr \in PatchedAttrs \cup ArgumentAttrs : P[attr] = ParameterDefaults[attr]

\* plot_tornado_lcoh has finished after all seven entries, the five patched
\* ones among them
C26_TornadoFinished ==
    /\ op = "plot_tornado_lcoh" /\ Returned
    /\ Len(ret[1]) = Len(params)
    /\ \E i \in 1..Len(ret[1]) : ret[1][i].label = "HRS OPEX"

(***************************************************************************)
(* Calls of calculate_demand: fleets of one bus, the existing fleet, the   *)
(* planned fleet and one bus more; fuel economies and daily mileages with  *)
(* up to two decimals; no existing capacity and the baseline capacity.     *)
(***************************************************************************)
DemandBuses == {RInt(1), RInt(EXISTING_BUSES), RInt(TOTAL_BUSES), RInt(TOTAL_BUSES + 1)}

DemandFuelEconomies == {FUEL_ECONOMY_KG_100KM, RFrac(857, 100), RInt(9), RFrac(731, 100)}

DemandMileages == {RInt(DAILY_MILEAGE_KM), RFrac(3017, 10), RFrac(2503, 10), RFrac(3333, 10)}

DemandCapacities == {RInt(0), RInt(EXISTING_TYSELEY_CAPACITY_KG_DAY)}

DemandArgs ==
    [total_buses : DemandBuses, fuel_economy : DemandFuelEconomies,
     daily_mileage_km : DemandMileages, existing_capacity_kg_day : DemandCapacities]

InitDemand ==
    op = "calculate_demand" /\ args \in DemandArgs /\ ret = Pending /\ frame = None
    /\ Startup

CallDemand ==
    /\ op = "calculate_demand" /\ ret = Pending
    /\ ret' = << Values(calculate_demand_of(args.total_buses, args.fuel_economy,
                                            args.daily_mileage_km,
                                            args.existing_capacity_kg_day)) >>
    /\ UNCHANGED << op, args, frame, P, calls >>

SpecDemand == InitDemand /\ [][CallDemand]_vars

DemandReturned == op = "calculate_demand" /\ Returned

\* buses * mileage / 100 * fuel economy
DailyDemandFormula(a) ==
    RMul(RMul(a.total_buses, RDiv(a.daily_mileage_km, RInt(100))), a.fuel_economy)

BaselineDemandArgs ==
    [total_buses |-> RInt(TOTAL_BUSES), fuel_economy |-> FUEL_ECONOMY_KG_100KM,
     daily_mileage_km |-> RInt(DAILY_MILEAGE_KM),
     existing_capacity_kg_day |-> RInt(EXISTING_TYSELEY_CAPACITY_KG_DAY)]

(***************************************************************************)
(* C21: calculate_demand for 140 buses at 300 km/day and 8.5 kg/100 km     *)
(* returns full_fleet_daily_kg = 3570 and annual_total_kg = 1303050        *)
(* exactly, and for every input full_fleet_daily_kg equals                 *)
(* buses * mileage / 100 * fuel economy and annual_total_kg equals that    *)
(* daily demand * 365.  (full_fleet_daily_kg is held in tenths.)           *)
(***************************************************************************)
C21_DemandEqualsFormulas ==
    DemandReturned =>
        /\ args = BaselineDemandArgs =>
               ret[1].full_fleet_daily_kg = 35700 /\ ret[1].annual_total_kg = 1303050
        /\ REq(RFrac(ret[1].full_fleet_daily_kg, 10), DailyDemandFormula(args))
        /\ REq(RInt(ret[1].annual_total_kg),
               RMul(DailyDemandFormula(args), RInt(DAYS_PER_YEAR)))

(***************************************************************************)
(* C25: the avoided CO2 that calculate_annual_costs reports                *)
(* (carbon_saving_tonnes) does not depend on the electricity price         *)
(* argument: whatever the electricity price, it equals                     *)
(* calculate_emissions().co2_saving_tonnes_yr at the default grid carbon   *)
(* intensity, and carbon_saving_value_gbp is that tonnage times the carbon *)
(* price (a whole number of pounds).                                       *)
(***************************************************************************)
C25_CarbonSavingIgnoresElectricityPrice ==
    AnnualReturned =>
        \E tonnes \in {calculate_emissions(GRID_CARBON_INTENSITY_G_KWH).co2_saving_tonnes_yr} :
            /\ ret[1].carbon_saving_tonnes = Rounded(tonnes, 1)
            /\ ret[1].carbon_saving_value_gbp =
                   Rounded(RMul(tonnes, args.carbon_price_gbp_tonne), 0)

(***************************************************************************)
(* C23: at the start of every bisection iteration of _irr the bracket      *)
(* [lo, hi] has endpoints whose NPVs have opposite sign,                   *)
(* NPV(lo) * NPV(hi) <= 0, so that a root lies inside it, for every series *)
(* that passes the existence check, those whose NPV at the lower endpoint  *)
(* or at a midpoint is exactly 0 or within the tolerance included.         *)
(***************************************************************************)
\* _irr is about to run an iteration of its loop (line 66)
AtIteration ==
    op = "_irr" /\ ret = Pending /\ frame # None /\ frame[1].iteration < irr_iterations

C23_BracketKeepsSignChange ==
    AtIteration =>
        QSign[npv_at_rate(args.cash_flows, frame[1].lo)]
        * QSign[npv_at_rate(args.cash_flows, frame[1].hi)] <= 0

(***************************************************************************)
(* C24: for every series that passes the existence check the bisection of  *)
(* _irr terminates after at most 100 iterations: it returns the midpoint   *)
(* at the first iteration where |NPV(midpoint)| < 1, and otherwise the     *)
(* midpoint of the final bracket after the 100th iteration; any rate it    *)
(* returns lies in [-0.5, 2.0].  As a property of behaviours: every        *)
(* iteration whose midpoint is within the tolerance returns it and every   *)
(* other iteration goes on to the next; no call runs more than 100         *)
(* iterations; a returned rate is the midpoint of the bracket the loop     *)
(* stopped at, either within the tolerance or after 100 iterations, and    *)
(* lies in the domain; and every call returns.                             *)
(***************************************************************************)
WithinTolerance(cf, r) == QLt[QAbs[npv_at_rate(cf, r)], QFrac(1, 1)]

\* one iteration, from its start to the next state
IterationReturnsOrGoesOn ==
    AtIteration =>
        \E mid \in {irr_midpoint(frame[1].lo, frame[1].hi)} :
            IF WithinTolerance(args.cash_flows, mid)
            THEN ret' = << Some(mid) >>
            ELSE ret' = Pending /\ frame'[1].iteration = frame[1].iteration + 1

RateReturned == IrrReturned /\ ret[1] # None

ReturnedRateIsMidpointInDomain ==
    /\ (op = "_irr" /\ frame # None) => frame[1].iteration <= 100
    /\ RateReturned =>
           /\ frame # None
           /\ ret[1][1] = irr_midpoint(frame[1].lo, frame[1].hi)
           /\ WithinTolerance(args.cash_flows, ret[1][1]) \/ frame[1].iteration = 100
           /\ ~QLt[ret[1][1], QFrac(-1, 2)]
           /\ ~QLt[QFrac(2, 1), ret[1][1]]

C24_BisectionTerminates ==
    /\ [][IterationReturnsOrGoesOn]_vars
    /\ []ReturnedRateIsMidpointInDomain
    /\ <>IrrReturned

\* _irr has returned a rate after the 100th iteration, outside the tolerance
C24_ReturnedAfterLastIteration ==
    /\ RateReturned
    /\ frame[1].iteration = 100
    /\ ~WithinTolerance(args.cash_flows, ret[1][1])
(***************************************************************************)
(* The engine: any one call of any of the operations.                      *)
(***************************************************************************)
Init == InitLcoh \/ InitAnnuity \/ InitNpv \/ InitIrr \/ InitAnnual
        \/ InitFinance \/ InitBreakeven
        \/ InitSession \/ InitDemand

Next == CallLcoh \/ CallAnnuity \/ CallNpv \/ IrrEnter \/ IrrIterate \/ IrrExhaust
        \/ CallAnnual \/ CallNpvIrr \/ CallBreakeven
        \/ NextSession \/ CallDemand

Spec == Init /\ [][Next]_vars
====
